---- MODULE Spec2Model ----
(***************************************************************************)
(* Session store (poe_client/session.py) and the ask_poe / clear_session   *)
(* handlers (http_api.py) of the Poe proxy, as a state machine.            *)
(*                                                                         *)
(* Time is the value time.time() returns, in seconds.  A handler of the    *)
(* store is synchronous, so every time.time() call inside one handler sees *)
(* the same clock value; the clock moves between handlers (Tick).          *)
(*                                                                         *)
(* Session ids: uuid4 tokens are numbered 1, 2, ... in the order           *)
(* create_session generates them (a uuid4 is never generated twice and is  *)
(* never guessed by a client before it was handed out).  NoId is the       *)
(* argument None, UnknownId a client-made string that is no stored id.     *)
(***************************************************************************)
EXTENDS Integers, Sequences, FiniteSets, TLC

\* ---------------------------------------------------------------- bounds
MaxIds == 2          \* uuid4 tokens create_session may hand out
MaxTicks == 2        \* clock steps
TickSeconds == 3600  \* seconds the clock advances per step
MaxReqs == 2         \* ask_poe requests in flight at once
MaxHist == 3         \* turns the stored histories may hold together
MaxPieces == 4       \* pieces an input text of the extraction is built from
MaxChunks == 4       \* chunks of one stream of the external call
MaxConcTurns == 6    \* turns stored while requests run concurrently

\* ------------------------------------------------------------- constants
ExpiryMinutes == 60  \* SessionManager.__init__(expiry_minutes=60)
NoId == 0
UnknownId == -1

Reqs == 1..MaxReqs
Prompts == {"hi"}
Replies == {"hello"}

VARIABLES
    sessions,   \* SessionManager.sessions: id -> [messages, created_at, last_accessed]
    now,        \* time.time()
    nextId,     \* number of the next uuid4 token
    req,        \* the ask_poe coroutines: position and locals
    last,       \* the operation that produced this state, its arguments and result
    pre         \* SessionManager.sessions as it was when that operation was called

VARIABLES
    ext,        \* a run of the thinking extraction: the input text, the configuration, the results
    qry         \* a run of PoeClient.query_model: position, locals, outcome

VARIABLES
    fbk,        \* a run of claude_compat_v2.handle_claude_error: arguments, fallback calls, result
    att         \* the ask_with_attachment handler and the file utilities: position, locals, log

VARIABLES
    up          \* concurrent ask_with_attachment requests and the files of /tmp

vars == <<sessions, now, nextId, req, last, pre, ext, qry, fbk, att, up>>

\* the machine this specification does not run
Off == [pc |-> "off"]

\* ------------------------------------------------------------ data model
Turn(r, c) == [role |-> r, content |-> c]

Remove(ss, id) == [k \in (DOMAIN ss) \ {id} |-> ss[k]]

Put(ss, id, s) == [k \in (DOMAIN ss) \cup {id} |-> IF k = id THEN s ELSE ss[k]]

NormalizeRole(msg) ==
    IF msg.role = "assistant" THEN [msg EXCEPT !.role = "bot"] ELSE msg

\* --------------------------------------------------- SessionManager methods
\* Each method is an operator from the store (and the clock) to the store
\* after the call and the value returned.

\* faulty variant: a session at exactly last_accessed + expiry counts as expired
IsSessionExpiredInclusive(ss, t, id) ==
    IF id \notin DOMAIN ss THEN TRUE
    ELSE t >= ss[id].last_accessed + (ExpiryMinutes * 60)

IsSessionExpired(ss, t, id) ==
    IF id \notin DOMAIN ss THEN TRUE
    ELSE t > ss[id].last_accessed + (ExpiryMinutes * 60)

\* faulty variant: reports success without removing the entry
DeleteSessionKeeps(ss, id) ==
    IF id \notin DOMAIN ss THEN [ss |-> ss, ret |-> FALSE]
    ELSE [ss |-> ss, ret |-> TRUE]

DeleteSession(ss, id) ==
    IF id \notin DOMAIN ss THEN [ss |-> ss, ret |-> FALSE]
    ELSE [ss |-> Remove(ss, id), ret |-> TRUE]

\* faulty variant: the token generator repeats the token it gave before
CreateSessionRepeat(ss, t, n) ==
    LET m == IF n > 1 THEN n - 1 ELSE n IN
    [ss |-> Put(ss, m, [messages |-> <<>>, created_at |-> t, last_accessed |-> t]),
     ret |-> m]

CreateSession(ss, t, n) ==
    [ss |-> Put(ss, n, [messages |-> <<>>, created_at |-> t, last_accessed |-> t]),
     ret |-> n]

\* faulty variant: a session found keeps the last_accessed it had
GetSessionStale(ss, t, id) ==
    IF id \notin DOMAIN ss THEN [ss |-> ss, found |-> FALSE]
    ELSE [ss |-> ss, found |-> TRUE]

\* faulty variant: looking a session up also drops every expired session
GetSessionSweeps(ss, t, id) ==
    LET swept == [k \in {j \in DOMAIN ss : j = id \/ ~IsSessionExpired(ss, t, j)} |-> ss[k]]
    IN
    IF id \notin DOMAIN ss THEN [ss |-> swept, found |-> FALSE]
    ELSE [ss |-> [swept EXCEPT ![id].last_accessed = t], found |-> TRUE]

\* found = FALSE is the None result; found = TRUE returns self.sessions[id]
GetSession(ss, t, id) ==
    IF id \notin DOMAIN ss THEN [ss |-> ss, found |-> FALSE]
    ELSE LET touched == [ss EXCEPT ![id].last_accessed = t] IN
         IF IsSessionExpired(touched, t, id)
         THEN [ss |-> DeleteSession(touched, id).ss, found |-> FALSE]
         ELSE [ss |-> touched, found |-> TRUE]

\* faulty variant: no expiry test, a stored id is always resumed
GetOrCreateSessionReuse(ss, t, n, id) ==
    IF id # NoId /\ id \in DOMAIN ss
    THEN [ss |-> [ss EXCEPT ![id].last_accessed = t], ret |-> id]
    ELSE CreateSession(ss, t, n)

\* faulty variant: a resumed session's last_accessed is not refreshed
GetOrCreateSessionNoTouch(ss, t, n, id) ==
    IF id # NoId /\ id \in DOMAIN ss
    THEN IF IsSessionExpired(ss, t, id)
         THEN CreateSession(DeleteSession(ss, id).ss, t, n)
         ELSE [ss |-> ss, ret |-> id]
    ELSE CreateSession(ss, t, n)

GetOrCreateSession(ss, t, n, id) ==
    IF id # NoId /\ id \in DOMAIN ss
    THEN IF IsSessionExpired(ss, t, id)
         THEN CreateSession(DeleteSession(ss, id).ss, t, n)
         ELSE [ss |-> [ss EXCEPT ![id].last_accessed = t], ret |-> id]
    ELSE CreateSession(ss, t, n)

\* faulty variant: the pair is appended in (bot, user) order
UpdateSessionSwapped(ss, t, id, u, m) ==
    LET g == GetSession(ss, t, id) IN
    IF ~g.found THEN [ss |-> g.ss, ret |-> FALSE]
    ELSE [ss |-> [g.ss EXCEPT ![id].messages =
                        Append(Append(@, Turn("bot", m)), Turn("user", u)),
                      ![id].last_accessed = t],
          ret |-> TRUE]

\* faulty variant: the two turns are written apart, the user turn at the head
\* of the history and the bot turn at its end
UpdateSessionApart(ss, t, id, u, m) ==
    LET g == GetSession(ss, t, id) IN
    IF ~g.found THEN [ss |-> g.ss, ret |-> FALSE]
    ELSE [ss |-> [g.ss EXCEPT ![id].messages =
                        <<Turn("user", u)>> \o @ \o <<Turn("bot", m)>>,
                      ![id].last_accessed = t],
          ret |-> TRUE]

UpdateSession(ss, t, id, u, m) ==
    LET g == GetSession(ss, t, id) IN
    IF ~g.found THEN [ss |-> g.ss, ret |-> FALSE]
    ELSE [ss |-> [g.ss EXCEPT ![id].messages =
                        Append(Append(@, Turn("user", u)), Turn("bot", m)),
                      ![id].last_accessed = t],
          ret |-> TRUE]

\* faulty variant: a turn equal to the one before it is dropped from the
\* stored history
GetMessagesDedup(ss, t, id) ==
    LET g == GetSession(ss, t, id) IN
    IF ~g.found THEN [ss |-> g.ss, ret |-> <<>>, shared |-> FALSE]
    ELSE LET msgs == g.ss[id].messages
             kept == SelectSeq([i \in DOMAIN msgs |-> <<i, msgs[i]>>],
                               LAMBDA p : p[1] = 1 \/ msgs[p[1] - 1] # p[2])
             fixed == [i \in DOMAIN kept |-> NormalizeRole(kept[i][2])] IN
         [ss |-> [g.ss EXCEPT ![id].messages = fixed], ret |-> fixed, shared |-> TRUE]

\* shared = TRUE: the list returned is the list object the store holds
GetMessages(ss, t, id) ==
    LET g == GetSession(ss, t, id) IN
    IF ~g.found THEN [ss |-> g.ss, ret |-> <<>>, shared |-> FALSE]
    ELSE LET fixed == [i \in 1..Len(g.ss[id].messages) |->
                          NormalizeRole(g.ss[id].messages[i])] IN
         [ss |-> [g.ss EXCEPT ![id].messages = fixed], ret |-> fixed, shared |-> TRUE]

ExpiredSessions(ss, t) == {id \in DOMAIN ss : IsSessionExpired(ss, t, id)}

CleanupExpiredSessions(ss, t) ==
    LET expired_sessions == ExpiredSessions(ss, t) IN
    [ss |-> [k \in (DOMAIN ss) \ expired_sessions |-> ss[k]],
     ret |-> Cardinality(expired_sessions)]

\* ------------------------------------------------------------ ask_poe
Idle == [pc |-> "idle", arg |-> NoId, sid |-> NoId, prompt |-> "",
         before |-> <<>>, resumed |-> FALSE, alone |-> FALSE]

InFlight(rq, id) == {r \in Reqs : rq[r].pc = "awaiting" /\ rq[r].sid = id}

AnyInFlight(rq) == {r \in Reqs : rq[r].pc = "awaiting"}

\* turns stored in all sessions together
RECURSIVE Stored(_, _)
Stored(ss, ids) ==
    IF ids = {} THEN 0
    ELSE LET i == CHOOSE x \in ids : TRUE IN Len(ss[i].messages) + Stored(ss, ids \ {i})

\* the store has room for k more turns, and for the two turns every request
\* in flight will still write (update_session)
Room(ss, rq, id, k) ==
    Stored(ss, DOMAIN ss) + 2 * Cardinality(AnyInFlight(rq)) + k <= MaxHist

\* faulty variant: a handler that runs drops the coroutines suspended on the
\* external call, which are never resumed
DisturbedDrops(rq) ==
    [r \in Reqs |-> IF rq[r].pc = "awaiting"
                    THEN [rq[r] EXCEPT !.pc = "dropped", !.alone = FALSE]
                    ELSE [rq[r] EXCEPT !.alone = FALSE]]

\* another handler ran while the request was suspended on the external call
Disturbed(rq) == [r \in Reqs |-> [rq[r] EXCEPT !.alone = FALSE]]

\* query_model up to its suspension on the external call: the user turn is
\* appended to the list it was handed
QueryModelAppend(messages, prompt) == Append(messages, Turn("user", prompt))

KnownIds == {UnknownId} \cup (1..(nextId - 1))

\* ------------------------------------------------------------- the machine
Init ==
    /\ sessions = <<>>
    /\ now = 0
    /\ nextId = 1
    /\ req = [r \in Reqs |-> Idle]
    /\ last = [op |-> "init"]
    /\ pre = <<>>
    /\ ext = Off
    /\ qry = Off
    /\ fbk = Off
    /\ att = Off
    /\ up = Off

Tick ==
    /\ UNCHANGED <<ext, qry, fbk, att, up>>
    /\ now < MaxTicks * TickSeconds
    /\ now' = now + TickSeconds
    /\ last' = [op |-> "tick"]
    /\ pre' = sessions
    /\ UNCHANGED <<sessions, nextId, req>>

Create ==
    /\ UNCHANGED <<ext, qry, fbk, att, up>>
    /\ nextId <= MaxIds
    /\ LET c == CreateSession(sessions, now, nextId) IN
       /\ sessions' = c.ss
       /\ last' = [op |-> "create", ret |-> c.ret]
    /\ nextId' = nextId + 1
    /\ pre' = sessions
    /\ req' = Disturbed(req)
    /\ UNCHANGED now

Get(id) ==
    /\ UNCHANGED <<ext, qry, fbk, att, up>>
    /\ LET g == GetSession(sessions, now, id) IN
       /\ sessions' = g.ss
       /\ last' = [op |-> "get", id |-> id, found |-> g.found]
    /\ pre' = sessions
    /\ req' = Disturbed(req)
    /\ UNCHANGED <<now, nextId>>

GetOrCreate(id) ==
    /\ UNCHANGED <<ext, qry, fbk, att, up>>
    /\ LET g == GetOrCreateSession(sessions, now, nextId, id) IN
       /\ g.ret = nextId => nextId <= MaxIds
       /\ sessions' = g.ss
       /\ last' = [op |-> "get_or_create", id |-> id, ret |-> g.ret]
       /\ nextId' = IF g.ret = nextId THEN nextId + 1 ELSE nextId
    /\ pre' = sessions
    /\ req' = Disturbed(req)
    /\ UNCHANGED now

Update(id, u, m) ==
    /\ UNCHANGED <<ext, qry, fbk, att, up>>
    /\ Room(sessions, req, id, 2)
    /\ LET g == UpdateSession(sessions, now, id, u, m) IN
       /\ sessions' = g.ss
       /\ last' = [op |-> "update", id |-> id, u |-> u, m |-> m, ret |-> g.ret]
    /\ pre' = sessions
    /\ req' = Disturbed(req)
    /\ UNCHANGED <<now, nextId>>

\* delete_session, also the whole of the clear_session handler
Delete(id) ==
    /\ UNCHANGED <<ext, qry, fbk, att, up>>
    /\ LET d == DeleteSession(sessions, id) IN
       /\ sessions' = d.ss
       /\ last' = [op |-> "delete", id |-> id, ret |-> d.ret,
                   again |-> (last.op = "delete" /\ last.id = id /\ last.ret)]
    /\ pre' = sessions
    /\ req' = Disturbed(req)
    /\ UNCHANGED <<now, nextId>>

ListMessages(id) ==
    /\ UNCHANGED <<ext, qry, fbk, att, up>>
    /\ LET g == GetMessages(sessions, now, id) IN
       /\ sessions' = g.ss
       /\ last' = [op |-> "list_messages", id |-> id, ret |-> g.ret]
    /\ pre' = sessions
    /\ req' = Disturbed(req)
    /\ UNCHANGED <<now, nextId>>

Sweep ==
    /\ UNCHANGED <<ext, qry, fbk, att, up>>
    /\ LET c == CleanupExpiredSessions(sessions, now) IN
       /\ sessions' = c.ss
       /\ last' = [op |-> "sweep", ret |-> c.ret]
    /\ pre' = sessions
    /\ req' = Disturbed(req)
    /\ UNCHANGED <<now, nextId>>

\* ask_poe from its entry to the suspension on the external call:
\* get_or_create_session, get_messages, and query_model's append
AskStart(r, arg, prompt) ==
    /\ UNCHANGED <<ext, qry, fbk, att, up>>
    /\ req[r].pc = "idle"
    \* coroutine slots are taken in order: r is the lowest idle one
    /\ \A q \in Reqs : q < r => req[q].pc # "idle"
    /\ LET g == GetOrCreateSession(sessions, now, nextId, arg)
           h == GetMessages(g.ss, now, g.ret)
           sent == QueryModelAppend(h.ret, prompt)
           after == IF h.shared THEN [h.ss EXCEPT ![g.ret].messages = sent]
                    ELSE h.ss
       IN
       /\ g.ret = nextId => nextId <= MaxIds
       /\ Room(g.ss, req, g.ret, 3)
       /\ sessions' = after
       /\ nextId' = IF g.ret = nextId THEN nextId + 1 ELSE nextId
       /\ req' = [Disturbed(req) EXCEPT ![r] =
                    [pc |-> "awaiting", arg |-> arg, sid |-> g.ret, prompt |-> prompt,
                     before |-> h.ret,
                     resumed |-> (arg \in DOMAIN sessions
                                  /\ ~(now > sessions[arg].last_accessed
                                              + (ExpiryMinutes * 60))),
                     alone |-> (AnyInFlight(req) = {})]]
       /\ last' = [op |-> "ask_start", req |-> r, id |-> arg, sid |-> g.ret,
                   sent |-> sent]
    /\ pre' = sessions
    /\ UNCHANGED now

\* the external call returned text: update_session, then the success response
AskReturn(r, text) ==
    /\ UNCHANGED <<ext, qry, fbk, att, up>>
    /\ req[r].pc = "awaiting"
    /\ LET u == UpdateSession(sessions, now, req[r].sid, req[r].prompt, text) IN
       /\ sessions' = u.ss
       /\ last' = [op |-> "ask_poe", req |-> r, status |-> 200, text |-> text,
                   session_id |-> req[r].sid, updated |-> u.ret,
                   arg |-> req[r].arg, resumed |-> req[r].resumed,
                   before |-> req[r].before, prompt |-> req[r].prompt,
                   alone |-> req[r].alone]
    /\ req' = [Disturbed(req) EXCEPT ![r] = Idle]
    /\ pre' = sessions
    /\ UNCHANGED <<now, nextId>>

\* the external call raised: query_model raises PoeApiError, ask_poe answers 500
AskRaise(r) ==
    /\ UNCHANGED <<ext, qry, fbk, att, up>>
    /\ req[r].pc = "awaiting"
    /\ last' = [op |-> "ask_poe", req |-> r, status |-> 500, text |-> "",
                session_id |-> req[r].sid, updated |-> FALSE,
                arg |-> req[r].arg, resumed |-> req[r].resumed,
                before |-> req[r].before, prompt |-> req[r].prompt,
                alone |-> req[r].alone]
    /\ req' = [Disturbed(req) EXCEPT ![r] = Idle]
    /\ pre' = sessions
    /\ UNCHANGED <<sessions, now, nextId>>

Next ==
    \/ Tick
    \/ Create
    \/ \E id \in KnownIds : Get(id)
    \/ \E id \in KnownIds \cup {NoId} : GetOrCreate(id)
    \/ \E id \in KnownIds, u \in Prompts, m \in Replies : Update(id, u, m)
    \/ \E id \in KnownIds : Delete(id)
    \/ \E id \in KnownIds : ListMessages(id)
    \/ Sweep
    \/ \E r \in Reqs, id \in KnownIds \cup {NoId}, p \in Prompts : AskStart(r, id, p)
    \/ \E r \in Reqs, t \in Replies : AskReturn(r, t)
    \/ \E r \in Reqs : AskRaise(r)

Spec == Init /\ [][Next]_vars

\* ------------------------------------------------------------------ texts
\* A text is the sequence of its characters; indices are Python's (0-based).
OpenTag == <<"<", "t", "h", "i", "n", "k", "i", "n", "g", ">">>

CloseTag == <<"<", "/", "t", "h", "i", "n", "k", "i", "n", "g", ">">>

Placeholder == <<"{", "{", "t", "h", "i", "n", "k", "i", "n", "g", "}", "}">>

Whitespace == {" ", "\n", "\t"}

\* s.find(p, from): index of the first occurrence at or after from, -1 if none
FindFrom(s, p, from) ==
    LET hits == {i \in from..(Len(s) - Len(p)) : \A k \in 1..Len(p) : s[i + k] = p[k]}
    IN IF hits = {} THEN -1 ELSE CHOOSE i \in hits : \A j \in hits : i <= j

Find(s, p) == FindFrom(s, p, 0)

\* s[a:b]
Slice(s, a, b) == SubSeq(s, a + 1, IF b > Len(s) THEN Len(s) ELSE b)

RECURSIVE LStrip(_)
LStrip(s) == IF s # <<>> /\ Head(s) \in Whitespace THEN LStrip(Tail(s)) ELSE s

RECURSIVE RStrip(_)
RStrip(s) ==
    IF s # <<>> /\ s[Len(s)] \in Whitespace THEN RStrip(SubSeq(s, 1, Len(s) - 1)) ELSE s

\* s.strip()
Strip(s) == RStrip(LStrip(s))

\* ------------------------------------- poe_client/claude_compat.py (fixed tags)
ProcessClaudeResponse(response) ==
    IF Find(response, OpenTag) # -1 /\ Find(response, CloseTag) # -1
    THEN LET thinking_start == Find(response, OpenTag)
             thinking_end == Find(response, CloseTag) + Len(CloseTag)
         IN Slice(response, 0, thinking_start)
               \o Slice(response, thinking_end, Len(response))
    ELSE response

\* ------------------------------------------ claude_compat_v2.py (template)
DefaultTemplate == Placeholder

TaggedTemplate == OpenTag \o Placeholder \o CloseTag

\* a template without the placeholder
BareTemplate == OpenTag

\* thinking = None
NoThinking == [given |-> FALSE]

ThinkingConfig(enabled, template, include_in_response) ==
    [given |-> TRUE, enabled |-> enabled, template |-> template,
     include_in_response |-> include_in_response]

\* DEFAULT_THINKING
DefaultThinking == ThinkingConfig(TRUE, DefaultTemplate, FALSE)

\* pattern.search for the pattern  pre(.*?)suf  (re.DOTALL, pre and suf
\* literal): the leftmost match, its group as short as possible
ReSearch(s, prefix, suffix) ==
    LET i == FindFrom(s, prefix, 0) IN
    IF i = -1 THEN [found |-> FALSE]
    ELSE LET j == FindFrom(s, suffix, i + Len(prefix)) IN
         IF j = -1 THEN [found |-> FALSE]
         ELSE [found |-> TRUE, start |-> i, group |-> Slice(s, i + Len(prefix), j),
               end |-> j + Len(suffix)]

\* pattern.sub("", s): every non-overlapping match removed, left to right.
\* With both literals empty the pattern is (.*?): after the empty match at a
\* position the next match there must be non-empty and takes one character,
\* so nothing of s is left.
RECURSIVE ReSub(_, _, _)
ReSub(s, prefix, suffix) ==
    IF prefix = <<>> /\ suffix = <<>> THEN <<>>
    ELSE LET m == ReSearch(s, prefix, suffix) IN
         IF ~m.found THEN s
         ELSE Slice(s, 0, m.start) \o ReSub(Slice(s, m.end, Len(s)), prefix, suffix)

Extracted(t, r) == [raised |-> "", thinking |-> t, response |-> r]

\* raised = "IndexError": match.group(1) on a pattern that has no group
ExtractThinkingFromResponse(response, thinking) ==
    IF ~thinking.given \/ thinking.enabled = FALSE THEN Extracted(<<>>, response)
    ELSE LET template == thinking.template
             p == Find(template, Placeholder)
         IN
         IF p = -1
         THEN IF Find(response, template) # -1
              THEN [raised |-> "IndexError", thinking |-> <<>>, response |-> <<>>]
              ELSE Extracted(<<>>, response)
         ELSE LET prefix == Slice(template, 0, p)
                  suffix == Slice(template, p + Len(Placeholder), Len(template))
                  match == ReSearch(response, prefix, suffix)
              IN
              IF match.found
              THEN Extracted(Strip(match.group),
                             IF ~thinking.include_in_response
                             THEN Strip(ReSub(response, prefix, suffix))
                             ELSE response)
              ELSE Extracted(<<>>, response)

\* ------------------------------------- the extraction applied to input texts
Pieces == {OpenTag, CloseTag, <<"<", "t", "h", "i", "n">>, <<"k", "i", "n", "g", ">">>,
           <<"a">>, <<" ">>}

ThinkingConfigs ==
    {NoThinking, ThinkingConfig(FALSE, DefaultTemplate, FALSE)}
        \cup {ThinkingConfig(TRUE, t, i) :
                t \in {DefaultTemplate, TaggedTemplate, BareTemplate}, i \in BOOLEAN}

ExtInit ==
    /\ ext = [pc |-> "text", text |-> <<>>, n |-> 0]
    /\ sessions = <<>>
    /\ now = 0
    /\ nextId = 1
    /\ req = [r \in Reqs |-> Idle]
    /\ last = [op |-> "init"]
    /\ pre = <<>>
    /\ qry = Off
    /\ fbk = Off
    /\ att = Off
    /\ up = Off

ExtAddPiece(p) ==
    /\ ext.pc = "text"
    /\ ext.n < MaxPieces
    /\ ext' = [ext EXCEPT !.text = @ \o p, !.n = @ + 1]
    /\ UNCHANGED <<sessions, now, nextId, req, last, pre, qry, fbk, att, up>>

\* process_claude_response(text), and again on its result
ExtProcess ==
    /\ ext.pc = "text"
    /\ LET once == ProcessClaudeResponse(ext.text) IN
       ext' = [pc |-> "processed", text |-> ext.text, once |-> once,
               twice |-> ProcessClaudeResponse(once)]
    /\ UNCHANGED <<sessions, now, nextId, req, last, pre, qry, fbk, att, up>>

\* extract_thinking_from_response(text, thinking), and again on its response
ExtExtract(thinking) ==
    /\ ext.pc = "text"
    /\ LET once == ExtractThinkingFromResponse(ext.text, thinking) IN
       ext' = [pc |-> "extracted", text |-> ext.text, thinking |-> thinking,
               once |-> once,
               twice |-> IF once.raised = ""
                         THEN ExtractThinkingFromResponse(once.response, thinking)
                         ELSE once]
    /\ UNCHANGED <<sessions, now, nextId, req, last, pre, qry, fbk, att, up>>

ExtNext ==
    \/ \E p \in Pieces : ExtAddPiece(p)
    \/ ExtProcess
    \/ \E t \in ThinkingConfigs : ExtExtract(t)

SpecExtract == ExtInit /\ [][ExtNext]_vars

\* ------------------------------------------- poe_client/poe_api.py query_model
UpperCase ==
    <<"A", "B", "C", "D", "E", "F", "G", "H", "I", "J", "K", "L", "M", "N", "O", "P",
      "Q", "R", "S", "T", "U", "V", "W", "X", "Y", "Z">>

LowerCase ==
    <<"a", "b", "c", "d", "e", "f", "g", "h", "i", "j", "k", "l", "m", "n", "o", "p",
      "q", "r", "s", "t", "u", "v", "w", "x", "y", "z">>

\* s.lower()
Lower(s) ==
    [i \in DOMAIN s |->
        IF \E k \in DOMAIN UpperCase : UpperCase[k] = s[i]
        THEN LowerCase[CHOOSE k \in DOMAIN UpperCase : UpperCase[k] = s[i]]
        ELSE s[i]]

\* a in b
In(a, b) == Find(b, a) # -1

claude_models ==
    <<<<"C", "l", "a", "u", "d", "e", "-", "3", "-", "O", "p", "u", "s", "-", "2", "0",
        "0", "k">>,
      <<"C", "l", "a", "u", "d", "e", "-", "3", "-", "S", "o", "n", "n", "e", "t", "-",
        "7", "k">>,
      <<"C", "l", "a", "u", "d", "e", "-", "3", "-", "H", "a", "i", "k", "u", "-", "3",
        "k">>,
      <<"C", "l", "a", "u", "d", "e", "-", "2", "-", "1", "0", "0", "k">>>>

IsClaudeModel(model_name) ==
    \E k \in DOMAIN claude_models :
        \/ In(Lower(claude_models[k]), Lower(model_name))
        \/ In(Lower(model_name), Lower(claude_models[k]))

\* "thinking protocol"
ThinkingProtocolWords ==
    <<"t", "h", "i", "n", "k", "i", "n", "g", " ", "p", "r", "o", "t", "o", "c", "o",
      "l">>

\* "context window"
ContextWindowWords ==
    <<"c", "o", "n", "t", "e", "x", "t", " ", "w", "i", "n", "d", "o", "w">>

\* "token limit"
TokenLimitWords ==
    <<"t", "o", "k", "e", "n", " ", "l", "i", "m", "i", "t">>

ThinkingProtocolMessage ==
    <<"E", "r", "r", "o", "r", " ", "w", "i", "t", "h", " ", "C", "l", "a", "u", "d",
      "e", " ", "t", "h", "i", "n", "k", "i", "n", "g", " ", "p", "r", "o", "t", "o",
      "c", "o", "l", ".", " ", "T", "r", "y", " ", "a", "g", "a", "i", "n", " ", "w",
      "i", "t", "h", "o", "u", "t", " ", "t", "h", "e", " ", "t", "h", "i", "n", "k",
      "i", "n", "g", " ", "p", "a", "r", "a", "m", "e", "t", "e", "r", ".">>

ContextWindowMessage ==
    <<"T", "h", "e", " ", "i", "n", "p", "u", "t", " ", "e", "x", "c", "e", "e", "d",
      "s", " ", "C", "l", "a", "u", "d", "e", "'", "s", " ", "c", "o", "n", "t", "e",
      "x", "t", " ", "w", "i", "n", "d", "o", "w", ".", " ", "T", "r", "y", " ", "r",
      "e", "d", "u", "c", "i", "n", "g", " ", "t", "h", "e", " ", "i", "n", "p", "u",
      "t", " ", "s", "i", "z", "e", " ", "o", "r", " ", "u", "s", "i", "n", "g", " ",
      "a", " ", "m", "o", "d", "e", "l", " ", "w", "i", "t", "h", " ", "a", " ", "l",
      "a", "r", "g", "e", "r", " ", "c", "o", "n", "t", "e", "x", "t", " ", "w", "i",
      "n", "d", "o", "w", ".">>

\* "Error with Claude: "
ClaudeErrorPrefix ==
    <<"E", "r", "r", "o", "r", " ", "w", "i", "t", "h", " ", "C", "l", "a", "u", "d",
      "e", ":", " ">>

\* "Error querying Poe model: "
QueryErrorPrefix ==
    <<"E", "r", "r", "o", "r", " ", "q", "u", "e", "r", "y", "i", "n", "g", " ", "P",
      "o", "e", " ", "m", "o", "d", "e", "l", ":", " ">>

\* handle_claude_error(error), error given by str(error)
HandleClaudeError(error_msg) ==
    IF In(ThinkingProtocolWords, Lower(error_msg))
    THEN [error |-> "claude_thinking_protocol_error", message |-> ThinkingProtocolMessage]
    ELSE IF In(ContextWindowWords, Lower(error_msg)) \/ In(TokenLimitWords, Lower(error_msg))
    THEN [error |-> "claude_context_window_error", message |-> ContextWindowMessage]
    ELSE [error |-> "claude_error", message |-> ClaudeErrorPrefix \o error_msg]

\* "Error querying Poe model with file: "
QueryFileErrorPrefix ==
    <<"E", "r", "r", "o", "r", " ", "q", "u", "e", "r", "y", "i", "n", "g", " ", "P",
      "o", "e", " ", "m", "o", "d", "e", "l", " ", "w", "i", "t", "h", " ", "f", "i",
      "l", "e", ":", " ">>

\* "File not found: "
FileNotFoundPrefix ==
    <<"F", "i", "l", "e", " ", "n", "o", "t", " ", "f", "o", "u", "n", "d", ":", " ">>

\* "\n\nFile content:\n"
FileContentLabel ==
    <<"\n", "\n", "F", "i", "l", "e", " ", "c", "o", "n", "t", "e", "n", "t", ":", "\n">>

\* "\n\n[File attached: "
FileAttachedLabel ==
    <<"\n", "\n", "[", "F", "i", "l", "e", " ", "a", "t", "t", "a", "c", "h", "e", "d",
      ":", " ">>

\* query_model has no file_path
NoFile == [given |-> FALSE]

\* a path of the file system: whether a file is there, whether its bytes
\* decode as UTF-8, and the decoded text
File(path, basename, exists, utf8, text) ==
    [given |-> TRUE, path |-> path, basename |-> basename, exists |-> exists,
     utf8 |-> utf8, text |-> text]

\* the type of what the external call raises (caught as Exception)
ExternalErrorType == "Exception"

\* a run of query_model / query_model_with_file between its chunks: the user
\* turn is appended to the caller's list (history: the list as it was handed
\* in) and the one external call is made
Streaming(bot_name, claude_compatible, thinking, file, history, content) ==
    [pc |-> "streaming", bot_name |-> bot_name, claude_compatible |-> claude_compatible,
     thinking |-> thinking, is_claude |-> IsClaudeModel(bot_name),
     file |-> file, history |-> history,
     messages |-> Append(history, Turn("user", content)), calls |-> 1,
     raw |-> <<>>, full_response |-> <<>>, n |-> 0]

\* the run ended by a return; failed: the external call raised, error_msg its
\* str() (empty when it did not raise)
Returned(q, failed, error_msg, result) ==
    [pc |-> "returned", bot_name |-> q.bot_name, claude_compatible |-> q.claude_compatible,
     thinking |-> q.thinking, is_claude |-> q.is_claude, raw |-> q.raw,
     file |-> q.file, history |-> q.history, messages |-> q.messages,
     calls |-> q.calls,
     full_response |-> q.full_response, failed |-> failed, error_msg |-> error_msg,
     result |-> result]

\* the run ended by the raise of lines 169-171 (286-288 with a file): whatever
\* the stream loop raises leaves as PoeApiError("Error querying Poe model: " +
\* str(e)), "Error querying Poe model with file: " with a file
Raised(q, error_msg, e) ==
    [pc |-> "raised", bot_name |-> q.bot_name, claude_compatible |-> q.claude_compatible,
     thinking |-> q.thinking, is_claude |-> q.is_claude, raw |-> q.raw,
     file |-> q.file, history |-> q.history, messages |-> q.messages,
     calls |-> q.calls,
     full_response |-> q.full_response, failed |-> TRUE, error_msg |-> error_msg,
     exc |-> [type |-> "PoeApiError",
              message |-> (IF q.file.given THEN QueryFileErrorPrefix
                           ELSE QueryErrorPrefix) \o e]]

\* lines 119-134: one chunk of the stream
QueryModelChunk(q, chunk_text) ==
    [q EXCEPT !.raw = @ \o chunk_text,
              !.full_response =
                  @ \o (IF q.is_claude /\ q.claude_compatible
                        THEN ProcessClaudeResponse(chunk_text)
                        ELSE chunk_text),
              !.n = @ + 1]

\* lines 157-167: the stream ended
QueryModelFinish(q) ==
    Returned(q, FALSE, <<>>,
             [text |-> IF q.is_claude /\ q.claude_compatible
                       THEN ProcessClaudeResponse(q.full_response)
                       ELSE q.full_response,
              bot |-> q.bot_name])

\* faulty variant: after an error with no text the external call is made again
QueryModelOnErrorRetries(q, error_msg) ==
    IF q.is_claude /\ q.claude_compatible
    THEN LET error_info == HandleClaudeError(error_msg) IN
         IF q.full_response # <<>>
         THEN Returned(q, TRUE, error_msg,
                       [text |-> q.full_response, bot |-> q.bot_name,
                        error |-> error_info.error,
                        error_message |-> error_info.message])
         ELSE Raised([q EXCEPT !.calls = @ + 1], error_msg, error_info.message)
    ELSE Raised([q EXCEPT !.calls = @ + 1], error_msg, error_msg)

\* faulty variant: the text accumulated before the failure is discarded
QueryModelOnErrorDiscards(q, error_msg) ==
    IF q.is_claude /\ q.claude_compatible
    THEN Raised(q, error_msg, HandleClaudeError(error_msg).message)
    ELSE Raised(q, error_msg, error_msg)

\* faulty variant: the error raised is the one the external call raised
QueryModelOnErrorReraises(q, error_msg) ==
    IF q.is_claude /\ q.claude_compatible /\ q.full_response # <<>>
    THEN LET error_info == HandleClaudeError(error_msg) IN
         Returned(q, TRUE, error_msg,
                  [text |-> q.full_response, bot |-> q.bot_name,
                   error |-> error_info.error,
                   error_message |-> error_info.message])
    ELSE Raised(q, error_msg, error_msg)

\* lines 136-155 and 169-171: the external call raised an error whose str() is
\* error_msg
QueryModelOnError(q, error_msg) ==
    IF q.is_claude /\ q.claude_compatible
    THEN LET error_info == HandleClaudeError(error_msg) IN
         IF q.full_response # <<>>
         THEN Returned(q, TRUE, error_msg,
                       [text |-> q.full_response, bot |-> q.bot_name,
                        error |-> error_info.error,
                        error_message |-> error_info.message])
         ELSE Raised(q, error_msg, error_info.message)
    ELSE Raised(q, error_msg, error_msg)

\* the call of query_model_with_file ended in its lines 194-195 and 282-284:
\* FileHandlingError leaves unwrapped, before the append and the external call
FileNotFound(bot_name, claude_compatible, thinking, file, history) ==
    [pc |-> "raised", bot_name |-> bot_name, claude_compatible |-> claude_compatible,
     thinking |-> thinking, is_claude |-> IsClaudeModel(bot_name), raw |-> <<>>,
     file |-> file, history |-> history, messages |-> history, calls |-> 0,
     full_response |-> <<>>, failed |-> FALSE, error_msg |-> <<>>,
     exc |-> [type |-> "FileHandlingError", message |-> FileNotFoundPrefix \o file.path]]

\* faulty variant: the missing file is reported as PoeApiError after the append
QueryModelWithFileStartWrapped(bot_name, claude_compatible, thinking, prompt, file, history) ==
    IF ~file.exists
    THEN [FileNotFound(bot_name, claude_compatible, thinking, file, history)
             EXCEPT !.exc = [type |-> "PoeApiError",
                             message |-> QueryFileErrorPrefix \o FileNotFoundPrefix
                                             \o file.path],
                    !.messages = Append(history, Turn("user", prompt))]
    ELSE Streaming(bot_name, claude_compatible, thinking, file, history,
                   IF file.utf8 THEN prompt \o FileContentLabel \o file.text
                   ELSE prompt \o FileAttachedLabel \o file.basename \o <<"]">>)

\* query_model_with_file lines 192-236, up to the stream loop
QueryModelWithFileStart(bot_name, claude_compatible, thinking, prompt, file, history) ==
    IF ~file.exists
    THEN FileNotFound(bot_name, claude_compatible, thinking, file, history)
    ELSE Streaming(bot_name, claude_compatible, thinking, file, history,
                   IF file.utf8 THEN prompt \o FileContentLabel \o file.text
                   ELSE prompt \o FileAttachedLabel \o file.basename \o <<"]">>)

\* query_model lines 98-123, up to the stream loop
QueryModelStart(bot_name, claude_compatible, thinking, prompt, history) ==
    Streaming(bot_name, claude_compatible, thinking, NoFile, history, prompt)

Bots ==
    {<<"C", "l", "a", "u", "d", "e", "-", "3", "-", "S", "o", "n", "n", "e", "t", "-",
       "7", "k">>,
     <<"s", "o", "n", "n", "e", "t">>,
     <<"G", "P", "T", "-", "4", "o">>}

QueryThinkings == {NoThinking, ThinkingConfig(FALSE, DefaultTemplate, FALSE), DefaultThinking}

Chunks == {OpenTag, CloseTag, <<"a">>, OpenTag \o <<"a">> \o CloseTag}

ErrorMessages ==
    {<<"T", "h", "i", "n", "k", "i", "n", "g", " ", "p", "r", "o", "t", "o", "c", "o",
       "l", " ", "r", "e", "j", "e", "c", "t", "e", "d">>,
     <<"T", "o", "k", "e", "n", " ", "l", "i", "m", "i", "t", " ", "r", "e", "a", "c",
       "h", "e", "d">>,
     <<"C", "o", "n", "n", "e", "c", "t", "i", "o", "n", " ", "r", "e", "s", "e", "t">>}

QueryPrompts == {<<"h", "i">>}

Histories ==
    {<<>>, <<Turn("user", <<"h", "i">>), Turn("bot", <<"h", "e", "l", "l", "o">>)>>}

Files ==
    {File(<<"/", "t", "m", "p", "/", "g", "o", "n", "e", ".", "t", "x", "t">>, <<"g", "o", "n", "e", ".", "t", "x", "t">>,
          FALSE, FALSE, <<>>),
     File(<<"/", "t", "m", "p", "/", "a", ".", "t", "x", "t">>, <<"a", ".", "t", "x", "t">>,
          TRUE, TRUE, <<"a">>),
     File(<<"/", "t", "m", "p", "/", "a", ".", "p", "n", "g">>, <<"a", ".", "p", "n", "g">>,
          TRUE, FALSE, <<>>)}

QryInit ==
    /\ qry = Off
    /\ sessions = <<>>
    /\ now = 0
    /\ nextId = 1
    /\ req = [r \in Reqs |-> Idle]
    /\ last = [op |-> "init"]
    /\ pre = <<>>
    /\ ext = Off
    /\ fbk = Off
    /\ att = Off
    /\ up = Off

\* query_model(bot_name, prompt, messages=history, thinking=thinking) is called
QryCall(bot_name, claude_compatible, thinking, prompt, history) ==
    /\ qry.pc = "off"
    /\ qry' = QueryModelStart(bot_name, claude_compatible, thinking, prompt, history)
    /\ UNCHANGED <<sessions, now, nextId, req, last, pre, ext, fbk, att, up>>

\* query_model_with_file(bot_name, prompt, file_path, messages=history,
\* thinking=thinking) is called
QryCallWithFile(bot_name, claude_compatible, thinking, prompt, file, history) ==
    /\ qry.pc = "off"
    /\ qry' = QueryModelWithFileStart(bot_name, claude_compatible, thinking, prompt,
                                      file, history)
    /\ UNCHANGED <<sessions, now, nextId, req, last, pre, ext, fbk, att, up>>

QryChunk(chunk_text) ==
    /\ qry.pc = "streaming"
    /\ qry.n < MaxChunks
    /\ qry' = QueryModelChunk(qry, chunk_text)
    /\ UNCHANGED <<sessions, now, nextId, req, last, pre, ext, fbk, att, up>>

QryFinish ==
    /\ qry.pc = "streaming"
    /\ qry' = QueryModelFinish(qry)
    /\ UNCHANGED <<sessions, now, nextId, req, last, pre, ext, fbk, att, up>>

QryFail(error_msg) ==
    /\ qry.pc = "streaming"
    /\ qry' = QueryModelOnError(qry, error_msg)
    /\ UNCHANGED <<sessions, now, nextId, req, last, pre, ext, fbk, att, up>>

\* ------------------------------- claude_compat_v2.py handle_claude_error
CLAUDE_MODELS ==
    <<<<"c", "l", "a", "u", "d", "e">>,
      <<"c", "l", "a", "u", "d", "e", "-", "3">>,
      <<"c", "l", "a", "u", "d", "e", "-", "3", "-", "o", "p", "u", "s">>,
      <<"c", "l", "a", "u", "d", "e", "-", "3", "-", "s", "o", "n", "n", "e", "t">>,
      <<"c", "l", "a", "u", "d", "e", "-", "3", "-", "h", "a", "i", "k", "u">>,
      <<"c", "l", "a", "u", "d", "e", "-", "3", ".", "5", "-", "s", "o", "n", "n", "e",
        "t">>,
      <<"c", "l", "a", "u", "d", "e", "-", "3", ".", "7", "-", "s", "o", "n", "n", "e",
        "t">>>>

\* claude_compat_v2.is_claude_model
IsClaudeModelV2(model_name) ==
    \E k \in DOMAIN CLAUDE_MODELS : In(CLAUDE_MODELS[k], Lower(model_name))

thinking_related_errors ==
    <<<<"t", "h", "i", "n", "k", "i", "n", "g">>,
      <<"p", "r", "o", "t", "o", "c", "o", "l">>,
      <<"t", "e", "m", "p", "l", "a", "t", "e">>,
      <<"f", "o", "r", "m", "a", "t">>,
      <<"i", "n", "v", "a", "l", "i", "d", " ", "r", "e", "q", "u", "e", "s", "t">>,
      <<"b", "a", "d", " ", "r", "e", "q", "u", "e", "s", "t">>>>

IsThinkingError(error_str) ==
    \E k \in DOMAIN thinking_related_errors : In(thinking_related_errors[k], error_str)

\* "Thinking protocol error: "
ThinkingErrorPrefix ==
    <<"T", "h", "i", "n", "k", "i", "n", "g", " ", "p", "r", "o", "t", "o", "c", "o",
      "l", " ", "e", "r", "r", "o", "r", ":", " ">>

\* ". Fallback response provided."
FallbackProvidedSuffix ==
    <<".", " ", "F", "a", "l", "l", "b", "a", "c", "k", " ", "r", "e", "s", "p", "o",
      "n", "s", "e", " ", "p", "r", "o", "v", "i", "d", "e", "d", ".">>

\* ". Fallback also failed: "
FallbackFailedInfix ==
    <<".", " ", "F", "a", "l", "l", "b", "a", "c", "k", " ", "a", "l", "s", "o", " ",
      "f", "a", "i", "l", "e", "d", ":", " ">>

\* "Error: "
ErrorPrefix ==
    <<"E", "r", "r", "o", "r", ":", " ">>

\* "Fallback also failed: "
FallbackFailedLog ==
    <<"F", "a", "l", "l", "b", "a", "c", "k", " ", "a", "l", "s", "o", " ", "f", "a",
      "i", "l", "e", "d", ":", " ">>

\* the configuration the fallback is called with
disabled_thinking == [enabled |-> FALSE]

\* lines 177-200: up to the await of the fallback handler, or lines 220-226.
\* calls: the calls of fallback_handler so far, log: the logger calls so far
HandleClaudeErrorStart(error_msg, fallback_handler, prompt, model_name, thinking) ==
    LET error_str == Lower(error_msg)
        args == [error_msg |-> error_msg, fallback_handler |-> fallback_handler,
                 prompt |-> prompt, model_name |-> model_name, thinking |-> thinking]
    IN
    IF IsThinkingError(error_str) /\ fallback_handler /\ IsClaudeModelV2(model_name)
    THEN [pc |-> "awaiting", args |-> args,
          calls |-> <<[prompt |-> prompt, thinking |-> disabled_thinking]>>,
          log |-> <<[level |-> "warning", about |-> error_str]>>]
    ELSE [pc |-> "returned", args |-> args, calls |-> <<>>, log |-> <<>>,
          fallback_error |-> <<>>,
          result |-> [text |-> <<>>, error |-> TRUE,
                      error_message |-> ErrorPrefix \o error_msg,
                      fallback_used |-> FALSE]]

\* lines 202-207: the fallback handler returned response
FallbackReturned(f, response) ==
    [pc |-> "returned", args |-> f.args, calls |-> f.calls, log |-> f.log,
     fallback_error |-> <<>>,
     result |-> [text |-> IF "text" \in DOMAIN response THEN response.text ELSE <<>>,
                 error |-> TRUE,
                 error_message |-> ThinkingErrorPrefix \o Lower(f.args.error_msg)
                                       \o FallbackProvidedSuffix,
                 fallback_used |-> TRUE]]

\* faulty variant: the error of the fallback handler leaves the function
FallbackRaisedPropagates(f, fallback_error) ==
    [pc |-> "raised", args |-> f.args, calls |-> f.calls, log |-> f.log,
     fallback_error |-> fallback_error,
     exc |-> [type |-> ExternalErrorType, message |-> fallback_error]]

\* lines 209-218: the fallback handler raised an error whose str() is
\* fallback_error
FallbackRaised(f, fallback_error) ==
    [pc |-> "returned", args |-> f.args, calls |-> f.calls,
     log |-> Append(f.log, [level |-> "error",
                            about |-> FallbackFailedLog \o fallback_error]),
     fallback_error |-> fallback_error,
     result |-> [text |-> <<>>, error |-> TRUE,
                 error_message |-> ThinkingErrorPrefix \o Lower(f.args.error_msg)
                                       \o FallbackFailedInfix \o fallback_error,
                 fallback_used |-> TRUE, fallback_failed |-> TRUE]]

ModelNames ==
    {<<"c", "l", "a", "u", "d", "e", "-", "3", "-", "s", "o", "n", "n", "e", "t">>,
     <<"C", "l", "a", "u", "d", "e", "-", "3", ".", "5", "-", "S", "o", "n", "n", "e",
       "t">>,
     <<"s", "o", "n", "n", "e", "t">>,
     <<"g", "p", "t", "-", "4", "o">>,
     <<>>}

FallbackErrors ==
    ErrorMessages \cup {<<"B", "a", "d", " ", "r", "e", "q", "u", "e", "s", "t">>}

\* what the fallback handler returns
FallbackResponses == {[text |-> <<"o", "k">>], [bot |-> <<"x">>]}

FbkInit ==
    /\ fbk = Off
    /\ sessions = <<>>
    /\ now = 0
    /\ nextId = 1
    /\ req = [r \in Reqs |-> Idle]
    /\ last = [op |-> "init"]
    /\ pre = <<>>
    /\ ext = Off
    /\ qry = Off
    /\ att = Off
    /\ up = Off

\* handle_claude_error(error, fallback_handler, prompt, model_name, thinking)
FbkCall(error_msg, fallback_handler, prompt, model_name, thinking) ==
    /\ fbk.pc = "off"
    /\ fbk' = HandleClaudeErrorStart(error_msg, fallback_handler, prompt, model_name,
                                     thinking)
    /\ UNCHANGED <<sessions, now, nextId, req, last, pre, ext, qry, att, up>>

FbkFallbackReturns(response) ==
    /\ fbk.pc = "awaiting"
    /\ fbk' = FallbackReturned(fbk, response)
    /\ UNCHANGED <<sessions, now, nextId, req, last, pre, ext, qry, att, up>>

FbkFallbackRaises(fallback_error) ==
    /\ fbk.pc = "awaiting"
    /\ fbk' = FallbackRaised(fbk, fallback_error)
    /\ UNCHANGED <<sessions, now, nextId, req, last, pre, ext, qry, att, up>>

FbkNext ==
    \/ \E e \in FallbackErrors, h \in BOOLEAN, p \in QueryPrompts, m \in ModelNames,
             t \in QueryThinkings : FbkCall(e, h, p, m, t)
    \/ \E r \in FallbackResponses : FbkFallbackReturns(r)
    \/ \E e \in FallbackErrors : FbkFallbackRaises(e)

SpecFallback == FbkInit /\ [][FbkNext]_vars

\* -------------------------------------------- utils/logging_utils.py
Exc(type, message) == [type |-> type, message |-> message]

ExceptionTypes ==
    {"AuthenticationError", "PoeApiError", "FileHandlingError", "PoeProxyError",
     "ValueError", "FileNotFoundError", "UnicodeDecodeError", "Exception"}

\* type(exc).__name__
TypeName(type) ==
    CASE type = "AuthenticationError" ->
           <<"A", "u", "t", "h", "e", "n", "t", "i", "c", "a", "t", "i", "o", "n", "E",
             "r", "r", "o", "r">>
      [] type = "PoeApiError" ->
           <<"P", "o", "e", "A", "p", "i", "E", "r", "r", "o", "r">>
      [] type = "FileHandlingError" ->
           <<"F", "i", "l", "e", "H", "a", "n", "d", "l", "i", "n", "g", "E", "r", "r",
             "o", "r">>
      [] type = "PoeProxyError" ->
           <<"P", "o", "e", "P", "r", "o", "x", "y", "E", "r", "r", "o", "r">>
      [] type = "ValueError" ->
           <<"V", "a", "l", "u", "e", "E", "r", "r", "o", "r">>
      [] type = "FileNotFoundError" ->
           <<"F", "i", "l", "e", "N", "o", "t", "F", "o", "u", "n", "d", "E", "r", "r",
             "o", "r">>
      [] type = "UnicodeDecodeError" ->
           <<"U", "n", "i", "c", "o", "d", "e", "D", "e", "c", "o", "d", "e", "E", "r",
             "r", "o", "r">>
      [] type = "Exception" ->
           <<"E", "x", "c", "e", "p", "t", "i", "o", "n">>

\* "Authentication error: "
AuthenticationLogPrefix ==
    <<"A", "u", "t", "h", "e", "n", "t", "i", "c", "a", "t", "i", "o", "n", " ", "e",
      "r", "r", "o", "r", ":", " ">>

\* "Poe API error: "
PoeApiLogPrefix ==
    <<"P", "o", "e", " ", "A", "P", "I", " ", "e", "r", "r", "o", "r", ":", " ">>

\* "File handling error: "
FileHandlingLogPrefix ==
    <<"F", "i", "l", "e", " ", "h", "a", "n", "d", "l", "i", "n", "g", " ", "e", "r",
      "r", "o", "r", ":", " ">>

\* "Unexpected error ("
UnexpectedLogPrefix ==
    <<"U", "n", "e", "x", "p", "e", "c", "t", "e", "d", " ", "e", "r", "r", "o", "r",
      " ", "(">>

LogEntry(level, text) == [level |-> level, text |-> text]

\* faulty variant: FileHandlingError falls through to the catch-all
HandleExceptionMisfiled(exc) ==
    IF exc.type = "AuthenticationError"
    THEN [content |-> [error |-> "authentication_error", message |-> exc.message],
          log |-> LogEntry("error", AuthenticationLogPrefix \o exc.message)]
    ELSE IF exc.type = "PoeApiError"
    THEN [content |-> [error |-> "poe_api_error", message |-> exc.message],
          log |-> LogEntry("error", PoeApiLogPrefix \o exc.message)]
    ELSE [content |-> [error |-> "unexpected_error",
                       message |-> TypeName(exc.type) \o <<":", " ">> \o exc.message],
          log |-> LogEntry("error", UnexpectedLogPrefix \o TypeName(exc.type)
                                        \o <<")", ":", " ">> \o exc.message)]

\* handle_exception(exc): the dictionary it returns and the entry it logs
HandleException(exc) ==
    IF exc.type = "AuthenticationError"
    THEN [content |-> [error |-> "authentication_error", message |-> exc.message],
          log |-> LogEntry("error", AuthenticationLogPrefix \o exc.message)]
    ELSE IF exc.type = "PoeApiError"
    THEN [content |-> [error |-> "poe_api_error", message |-> exc.message],
          log |-> LogEntry("error", PoeApiLogPrefix \o exc.message)]
    ELSE IF exc.type = "FileHandlingError"
    THEN [content |-> [error |-> "file_handling_error", message |-> exc.message],
          log |-> LogEntry("error", FileHandlingLogPrefix \o exc.message)]
    ELSE [content |-> [error |-> "unexpected_error",
                       message |-> TypeName(exc.type) \o <<":", " ">> \o exc.message],
          log |-> LogEntry("error", UnexpectedLogPrefix \o TypeName(exc.type)
                                        \o <<")", ":", " ">> \o exc.message)]

\* -------------------------------------------- poe_client/file_utils.py
MaxFileSizeMb == 10

Mebibyte == 1024 * 1024

\* a file of the file system with its size in bytes
DiskFile(file, size) ==
    [given |-> TRUE, path |-> file.path, basename |-> file.basename,
     exists |-> file.exists, utf8 |-> file.utf8, text |-> file.text, size |-> size]

\* the literal of line 24, written in Chinese in the source: "file does not
\* exist: " (the model keeps an ASCII rendering of it)
FileMissingPrefix ==
    <<"f", "i", "l", "e", " ", "d", "o", "e", "s", " ", "n", "o", "t", " ", "e", "x", "i", "s", "t", ":", " ">>

\* the literal of line 29, written in Chinese in the source: "file too
\* large: ", followed by the two sizes in MB
FileTooLargePrefix ==
    <<"f", "i", "l", "e", " ", "t", "o", "o", " ", "l", "a", "r", "g", "e", ":", " ">>

\* "Validated file: "
ValidatedLogPrefix ==
    <<"V", "a", "l", "i", "d", "a", "t", "e", "d", " ", "f", "i", "l", "e", ":", " ">>

\* "Error reading file: "
ReadErrorPrefix ==
    <<"E", "r", "r", "o", "r", " ", "r", "e", "a", "d", "i", "n", "g", " ", "f", "i",
      "l", "e", ":", " ">>

\* "utf-8 codec can't decode"
DecodeErrorMessage ==
    <<"'", "u", "t", "f", "-", "8", "'", " ", "c", "o", "d", "e", "c", " ", "c", "a",
      "n", "'", "t", " ", "d", "e", "c", "o", "d", "e">>

\* "No such file or directory: "
NoSuchFilePrefix ==
    <<"N", "o", " ", "s", "u", "c", "h", " ", "f", "i", "l", "e", " ", "o", "r", " ",
      "d", "i", "r", "e", "c", "t", "o", "r", "y", ":", " ">>

\* validate_file(file_path, max_size_mb): raised is the exception it raises,
\* if any; log the entries it writes
ValidateFile(file, max_size_mb) ==
    IF ~file.exists
    THEN [ok |-> FALSE, raised |-> Exc("FileNotFoundError", FileMissingPrefix \o file.path),
          log |-> <<>>]
    ELSE IF file.size > max_size_mb * Mebibyte
    THEN [ok |-> FALSE,
          raised |-> Exc("ValueError", FileTooLargePrefix \o <<ToString(file.size)>>),
          log |-> <<>>]
    ELSE [ok |-> TRUE, log |-> <<LogEntry("debug", ValidatedLogPrefix \o file.path)>>]

\* is_text_file(file_path): caught are the exceptions its except clause caught
IsTextFile(file) ==
    IF ~file.exists
    THEN [ret |-> FALSE, log |-> <<>>,
          caught |-> <<Exc("FileNotFoundError", NoSuchFilePrefix \o file.path)>>]
    ELSE IF ~file.utf8
    THEN [ret |-> FALSE, log |-> <<>>,
          caught |-> <<Exc("UnicodeDecodeError", DecodeErrorMessage)>>]
    ELSE [ret |-> TRUE, log |-> <<>>, caught |-> <<>>]

\* read_file_content(file_path, max_size_mb)
ReadFileContent(file, max_size_mb) ==
    LET v == ValidateFile(file, max_size_mb)
        t == IsTextFile(file)
    IN
    IF ~v.ok
    THEN [ok |-> FALSE, log |-> v.log, caught |-> <<v.raised>>,
          raised |-> Exc("FileHandlingError", ReadErrorPrefix \o v.raised.message)]
    ELSE [ok |-> TRUE, log |-> v.log \o t.log, caught |-> t.caught,
          ret |-> IF t.ret THEN <<file.text, TRUE>> ELSE <<file.basename, FALSE>>]

\* ------------------------------------------ http_api.py ask_with_attachment
\* "/tmp/"
TempDir ==
    <<"/", "t", "m", "p", "/">>

\* " [File: "
FileTag ==
    <<" ", "[", "F", "i", "l", "e", ":", " ">>

\* the uploaded file, written to /tmp/<filename>
Upload(filename, size, utf8, text) ==
    DiskFile(File(TempDir \o filename, filename, TRUE, utf8, text), size)

\* JSONResponse(status_code=500, content=...)
JSONResponse(status_code, content) == [status |-> status_code, content |-> content]

AttIdle(op, upload, arg, ret, caught, log, temp) ==
    [pc |-> "idle", op |-> op, upload |-> upload, arg |-> arg, ret |-> ret,
     caught |-> caught, log |-> log, temp |-> temp]

Uploads ==
    {Upload(<<"a", ".", "t", "x", "t">>, s, TRUE, <<"a">>) :
        s \in {1, MaxFileSizeMb * Mebibyte, MaxFileSizeMb * Mebibyte + 1}}
      \cup {Upload(<<"a", ".", "p", "n", "g">>, s, FALSE, <<>>) :
              s \in {1, MaxFileSizeMb * Mebibyte + 1}}

DiskFiles ==
    {DiskFile(f, s) : f \in Files, s \in {1, MaxFileSizeMb * Mebibyte + 1}}

AttInit ==
    /\ att = AttIdle("init", NoFile, NoId, <<>>, <<>>, <<>>, {})
    /\ sessions = <<>>
    /\ now = 0
    /\ nextId = 1
    /\ req = [r \in Reqs |-> Idle]
    /\ last = [op |-> "init"]
    /\ pre = <<>>
    /\ ext = Off
    /\ qry = Off
    /\ fbk = Off
    /\ up = Off

\* ask_with_attachment from its entry: the upload is written to /tmp and
\* validated; when the file is too large the handler answers 500, else it goes
\* on to get_or_create_session, get_messages and query_model_with_file, up to
\* the suspension on the external call
AttStart(upload, arg, prompt) ==
    /\ att.pc = "idle"
    /\ LET v == ValidateFile(upload, MaxFileSizeMb)
           temp == att.temp \cup {upload.path}
       IN
       IF ~v.ok
       THEN LET h == HandleException(v.raised) IN
            /\ att' = AttIdle("ask_with_attachment", upload, arg,
                              JSONResponse(500, h.content), <<v.raised>>,
                              v.log \o <<h.log>>, temp)
            /\ UNCHANGED <<sessions, nextId>>
       ELSE LET g == GetOrCreateSession(sessions, now, nextId, arg)
                m == GetMessages(g.ss, now, g.ret)
                q == QueryModelWithFileStart(<<>>, FALSE, NoThinking, prompt, upload, m.ret)
            IN
            /\ g.ret = nextId => nextId <= MaxIds
            /\ Stored(g.ss, DOMAIN g.ss) + 3 <= MaxHist
            /\ sessions' = IF m.shared THEN [m.ss EXCEPT ![g.ret].messages = q.messages]
                           ELSE m.ss
            /\ nextId' = IF g.ret = nextId THEN nextId + 1 ELSE nextId
            /\ att' = [pc |-> "awaiting", op |-> "ask_with_attachment",
                       upload |-> upload, arg |-> arg, sid |-> g.ret,
                       prompt |-> prompt, before |-> sessions, caught |-> <<>>,
                       log |-> v.log, temp |-> temp]
    /\ UNCHANGED <<now, req, last, pre, ext, qry, fbk, up>>

\* query_model_with_file returned text: update_session, os.remove, answer 200
AttReturn(text) ==
    /\ att.pc = "awaiting"
    /\ LET u == UpdateSession(sessions, now, att.sid,
                              att.prompt \o FileTag \o att.upload.basename \o <<"]">>,
                              text)
       IN
       /\ sessions' = u.ss
       /\ att' = AttIdle("ask_with_attachment", att.upload, att.arg,
                         [status |-> 200,
                          content |-> [text |-> text, session_id |-> att.sid]],
                         att.caught, att.log, att.temp \ {att.upload.path})
    /\ UNCHANGED <<now, nextId, req, last, pre, ext, qry, fbk, up>>

\* the external call raised: query_model_with_file raises PoeApiError (lines
\* 286-288), the handler answers 500
AttRaise(error_msg) ==
    /\ att.pc = "awaiting"
    /\ LET e == Exc("PoeApiError", QueryFileErrorPrefix \o error_msg)
           h == HandleException(e)
       IN
       att' = AttIdle("ask_with_attachment", att.upload, att.arg,
                      JSONResponse(500, h.content), <<e>>,
                      att.log \o <<h.log>>, att.temp)
    /\ UNCHANGED <<sessions, now, nextId, req, last, pre, ext, qry, fbk, up>>

\* is_text_file(file_path)
AttIsTextFile(file) ==
    /\ att.pc = "idle"
    /\ LET t == IsTextFile(file) IN
       att' = AttIdle("is_text_file", file, NoId, [status |-> 0, content |-> t.ret],
                      t.caught, t.log, att.temp)
    /\ UNCHANGED <<sessions, now, nextId, req, last, pre, ext, qry, fbk, up>>

\* read_file_content(file_path, max_size_mb)
AttReadFileContent(file) ==
    /\ att.pc = "idle"
    /\ LET r == ReadFileContent(file, MaxFileSizeMb) IN
       att' = AttIdle("read_file_content", file, NoId,
                      IF r.ok THEN [status |-> 0, content |-> r.ret]
                      ELSE [status |-> 1, content |-> r.raised],
                      r.caught, r.log, att.temp)
    /\ UNCHANGED <<sessions, now, nextId, req, last, pre, ext, qry, fbk, up>>

AttNext ==
    \/ \E u \in Uploads, id \in KnownIds \cup {NoId}, p \in QueryPrompts :
          AttStart(u, id, p)
    \/ \E t \in Chunks : AttReturn(t)
    \/ \E e \in ErrorMessages : AttRaise(e)
    \/ \E f \in DiskFiles : AttIsTextFile(f)
    \/ \E f \in DiskFiles : AttReadFileContent(f)

SpecAttach == AttInit /\ [][AttNext]_vars

\* ------------------------------- ask_poe, concurrent requests on a session
\* the prompt and the reply of the request in coroutine slot r
ConcPrompt(r) == "p" \o ToString(r)

ConcReply(r) == "r" \o ToString(r)

ConcInit ==
    /\ sessions = <<>>
    /\ now = 0
    /\ nextId = 1
    /\ req = [r \in Reqs |-> Idle]
    /\ last = [op |-> "init", serial |-> TRUE]
    /\ pre = <<>>
    /\ ext = Off
    /\ qry = Off
    /\ fbk = Off
    /\ att = Off
    /\ up = Off

\* ask_poe from its entry to the suspension on the external call; serial is
\* TRUE while every request so far ran alone and recorded its exchange
ConcStart(r, arg) ==
    /\ req[r].pc = "idle"
    /\ LET g == GetOrCreateSession(sessions, now, nextId, arg)
           h == GetMessages(g.ss, now, g.ret)
           sent == QueryModelAppend(h.ret, ConcPrompt(r))
       IN
       /\ g.ret = nextId => nextId <= MaxIds
       /\ Stored(g.ss, DOMAIN g.ss) + 2 * Cardinality(AnyInFlight(req)) + 3 <= MaxConcTurns
       /\ sessions' = IF h.shared THEN [h.ss EXCEPT ![g.ret].messages = sent] ELSE h.ss
       /\ nextId' = IF g.ret = nextId THEN nextId + 1 ELSE nextId
       /\ req' = [Disturbed(req) EXCEPT ![r] =
                    [pc |-> "awaiting", sid |-> g.ret, prompt |-> ConcPrompt(r),
                     alone |-> (AnyInFlight(req) = {})]]
       /\ last' = [op |-> "ask_start", req |-> r, sid |-> g.ret,
                   shared |-> InFlight(req, g.ret) # {}, sent |-> sent,
                   serial |-> (last.serial /\ AnyInFlight(req) = {})]
    /\ pre' = sessions
    /\ UNCHANGED <<now, ext, qry, fbk, att, up>>

\* the external call returned: update_session, then the success response
ConcReturn(r) ==
    /\ req[r].pc = "awaiting"
    /\ LET u == UpdateSession(sessions, now, req[r].sid, req[r].prompt, ConcReply(r)) IN
       /\ sessions' = u.ss
       /\ last' = [op |-> "ask_poe", req |-> r, status |-> 200, text |-> ConcReply(r),
                   session_id |-> req[r].sid, updated |-> u.ret,
                   prompt |-> req[r].prompt,
                   shared |-> InFlight(req, req[r].sid) # {r},
                   serial |-> (last.serial /\ u.ret)]
    /\ req' = [Disturbed(req) EXCEPT ![r] = Idle]
    /\ pre' = sessions
    /\ UNCHANGED <<now, nextId, ext, qry, fbk, att, up>>

\* the external call raised: ask_poe answers 500
ConcRaise(r) ==
    /\ req[r].pc = "awaiting"
    /\ last' = [op |-> "ask_poe", req |-> r, status |-> 500, text |-> "",
                session_id |-> req[r].sid, updated |-> FALSE,
                prompt |-> req[r].prompt,
                shared |-> InFlight(req, req[r].sid) # {r}, serial |-> FALSE]
    /\ req' = [Disturbed(req) EXCEPT ![r] = Idle]
    /\ pre' = sessions
    /\ UNCHANGED <<sessions, now, nextId, ext, qry, fbk, att, up>>

\* the clear_session handler: delete_session
ConcClear(id) ==
    /\ LET d == DeleteSession(sessions, id) IN
       /\ sessions' = d.ss
       /\ last' = [op |-> "delete", id |-> id, ret |-> d.ret, serial |-> FALSE]
    /\ req' = Disturbed(req)
    /\ pre' = sessions
    /\ UNCHANGED <<now, nextId, ext, qry, fbk, att, up>>

ConcNext ==
    \/ \E r \in Reqs, id \in (1..(nextId - 1)) \cup {NoId} : ConcStart(r, id)
    \/ \E r \in Reqs : ConcReturn(r)
    \/ \E r \in Reqs : ConcRaise(r)
    \/ \E id \in 1..(nextId - 1) : ConcClear(id)

SpecConc == ConcInit /\ [][ConcNext]_vars

\* the external stream is finite: the call a request is suspended on returns
\* or raises, and the event loop then resumes the request
SpecConcFair ==
    /\ ConcInit
    /\ [][ConcNext]_vars
    /\ \A r \in Reqs : WF_vars(ConcReturn(r) \/ ConcRaise(r))

\* ------------------- http_api.py ask_with_attachment, concurrent requests
UploadNames == {<<"a", ".", "t", "x", "t">>, <<"b", ".", "t", "x", "t">>}

UploadReplies == {<<"o", "k">>}

UploadErrors == {<<"C", "o", "n", "n", "e", "c", "t", "i", "o", "n", " ", "r", "e", "s", "e", "t">>}

\* the bytes request r uploads: r bytes, different for every request
UploadText(r) == [i \in 1..r |-> ToString(r)]

\* f.write(data) on a file opened with "wb" that now holds old
Overwrite(old, data) == data \o SubSeq(old, Len(data) + 1, Len(old))

\* the file /tmp/<filename> as validate_file and query_model_with_file see it
OnDisk(disk, filename) ==
    DiskFile(File(TempDir \o filename, filename, filename \in DOMAIN disk, TRUE,
                  IF filename \in DOMAIN disk THEN disk[filename] ELSE <<>>),
             IF filename \in DOMAIN disk THEN Len(disk[filename]) ELSE 0)

\* os.remove(path): the requests that hold the file open keep a descriptor of
\* a file that has no name any more
Unlinked(reqs, filename) ==
    [r \in Reqs |-> IF reqs[r].pc = "reading" /\ reqs[r].filename = filename
                    THEN [reqs[r] EXCEPT !.stale = TRUE] ELSE reqs[r]]

UpDone(rq, sid, sent, outcome, ret, recorded) ==
    [pc |-> "done", filename |-> rq.filename, arg |-> rq.arg, prompt |-> rq.prompt,
     sid |-> sid, sent |-> sent, outcome |-> outcome, ret |-> ret,
     recorded |-> recorded]

UpInit ==
    /\ up = [reqs |-> [r \in Reqs |-> [pc |-> "idle"]], disk |-> <<>>]
    /\ sessions = <<>>
    /\ now = 0
    /\ nextId = 1
    /\ req = [r \in Reqs |-> Idle]
    /\ last = [op |-> "init"]
    /\ pre = <<>>
    /\ ext = Off
    /\ qry = Off
    /\ fbk = Off
    /\ att = Off

\* lines 89-100, up to the suspension on file.read(): open(temp_path, "wb")
\* creates the file or empties it
UpOpen(r, filename, arg, prompt) ==
    /\ up.reqs[r].pc \in {"idle", "done"}
    /\ up' = [reqs |-> [up.reqs EXCEPT ![r] =
                          [pc |-> "reading", filename |-> filename, arg |-> arg,
                           prompt |-> prompt, stale |-> FALSE]],
              disk |-> Put(up.disk, filename, <<>>)]
    /\ UNCHANGED <<sessions, now, nextId, req, last, pre, ext, qry, fbk, att>>

\* lines 100-115: the upload is written through the descriptor, the file is
\* validated, the session is found and query_model_with_file runs up to the
\* suspension on the external call
UpWrite(r) ==
    /\ up.reqs[r].pc = "reading"
    /\ LET rq == up.reqs[r]
           disk == IF rq.stale THEN up.disk
                   ELSE Put(up.disk, rq.filename,
                            Overwrite(up.disk[rq.filename], UploadText(r)))
           file == OnDisk(disk, rq.filename)
           v == ValidateFile(file, MaxFileSizeMb)
       IN
       IF ~v.ok
       THEN /\ up' = [reqs |-> [up.reqs EXCEPT ![r] =
                                  UpDone(rq, NoId, <<>>, "invalid",
                                         JSONResponse(500, HandleException(v.raised).content),
                                         FALSE)],
                      disk |-> disk]
            /\ UNCHANGED <<sessions, nextId>>
       ELSE LET g == GetOrCreateSession(sessions, now, nextId, rq.arg)
                m == GetMessages(g.ss, now, g.ret)
                q == QueryModelWithFileStart(<<>>, FALSE, NoThinking, rq.prompt, file, m.ret)
            IN
            /\ g.ret = nextId => nextId <= MaxIds
            /\ Stored(g.ss, DOMAIN g.ss)
                  + 2 * Cardinality({k \in Reqs : up.reqs[k].pc = "awaiting"}) + 3
                  <= MaxConcTurns
            /\ sessions' = IF m.shared THEN [m.ss EXCEPT ![g.ret].messages = q.messages]
                           ELSE m.ss
            /\ nextId' = IF g.ret = nextId THEN nextId + 1 ELSE nextId
            /\ up' = [reqs |-> [up.reqs EXCEPT ![r] =
                                  [pc |-> "awaiting", filename |-> rq.filename,
                                   arg |-> rq.arg, prompt |-> rq.prompt, sid |-> g.ret,
                                   sent |-> q.messages[Len(q.messages)].content]],
                      disk |-> disk]
    /\ UNCHANGED <<now, req, last, pre, ext, qry, fbk, att>>

\* lines 116-123: the external call returned text; update_session, then
\* os.remove(temp_path), which raises when the file is gone
UpReturn(r, text) ==
    /\ up.reqs[r].pc = "awaiting"
    /\ LET rq == up.reqs[r]
           u == UpdateSession(sessions, now, rq.sid,
                              rq.prompt \o FileTag \o rq.filename \o <<"]">>, text)
           gone == Exc("FileNotFoundError", NoSuchFilePrefix \o TempDir \o rq.filename)
       IN
       /\ sessions' = u.ss
       /\ up' = IF rq.filename \in DOMAIN up.disk
                THEN [reqs |-> [Unlinked(up.reqs, rq.filename) EXCEPT ![r] =
                                  UpDone(rq, rq.sid, rq.sent, "returned",
                                         [status |-> 200,
                                          content |-> [text |-> text,
                                                       session_id |-> rq.sid]],
                                         u.ret)],
                      disk |-> Remove(up.disk, rq.filename)]
                ELSE [reqs |-> [up.reqs EXCEPT ![r] =
                                  UpDone(rq, rq.sid, rq.sent, "returned",
                                         JSONResponse(500, HandleException(gone).content),
                                         u.ret)],
                      disk |-> up.disk]
    /\ UNCHANGED <<now, nextId, req, last, pre, ext, qry, fbk, att>>

\* lines 124-125: the external call raised
UpRaise(r, error_msg) ==
    /\ up.reqs[r].pc = "awaiting"
    /\ LET rq == up.reqs[r]
           e == Exc("PoeApiError", QueryFileErrorPrefix \o error_msg)
       IN
       up' = [up EXCEPT !.reqs[r] =
                UpDone(rq, rq.sid, rq.sent, "raised",
                       JSONResponse(500, HandleException(e).content), FALSE)]
    /\ UNCHANGED <<sessions, now, nextId, req, last, pre, ext, qry, fbk, att>>

UpNext ==
    \/ \E r \in Reqs, fn \in UploadNames, id \in KnownIds \cup {NoId}, p \in QueryPrompts :
          UpOpen(r, fn, id, p)
    \/ \E r \in Reqs : UpWrite(r)
    \/ \E r \in Reqs, t \in UploadReplies : UpReturn(r, t)
    \/ \E r \in Reqs, e \in UploadErrors : UpRaise(r, e)

SpecUpload == UpInit /\ [][UpNext]_vars

\* ----------------------- http_api.py: the handler's answer to a query
\* ask_poe lines 66-74 (ask_with_attachment lines 116-125) once query_model
\* has returned or raised: the bot turn handed to update_session and the
\* response; the session id of the response is not part of this machine
QryRespond ==
    /\ qry.pc \in {"returned", "raised"}
    /\ last.op = "init"
    /\ last' = IF qry.pc = "returned"
               THEN [op |-> "respond",
                     recorded |-> <<Turn("bot", qry.result.text)>>,
                     response |-> [status |-> 200,
                                   content |-> [text |-> qry.result.text]]]
               ELSE [op |-> "respond",
                     recorded |-> <<>>,
                     response |-> JSONResponse(500, HandleException(qry.exc).content)]
    /\ UNCHANGED <<sessions, now, nextId, req, pre, ext, qry, fbk, att, up>>

QryNext ==
    \/ \E b \in Bots, c \in BOOLEAN, t \in QueryThinkings, p \in QueryPrompts,
             h \in Histories : QryCall(b, c, t, p, h)
    \/ \E b \in Bots, c \in BOOLEAN, t \in QueryThinkings, p \in QueryPrompts,
             f \in Files, h \in Histories : QryCallWithFile(b, c, t, p, f, h)
    \/ \E c \in Chunks : QryChunk(c)
    \/ QryFinish
    \/ \E e \in ErrorMessages : QryFail(e)
    \/ QryRespond

SpecQuery == QryInit /\ [][QryNext]_vars

\* ------------------------------------------------------------ the claims
\* the expiry rule of the specification: now > last_accessed + expiry_duration
ExpiryDuration == ExpiryMinutes * 60

Expired(ss, t, id) == id \in DOMAIN ss /\ t > ss[id].last_accessed + ExpiryDuration

Live(ss, t, id) == id \in DOMAIN ss /\ ~(t > ss[id].last_accessed + ExpiryDuration)

\* a history made of (user, bot) pairs only
Paired(h) ==
    /\ Len(h) % 2 = 0
    /\ \A i \in 1..Len(h) : h[i].role = (IF i % 2 = 1 THEN "user" ELSE "bot")

\* C1: a get(id) issued when now > last_accessed + expiry_duration returns
\* absent, and afterwards the store no longer contains id.
C1_GetExpiredIsAbsent ==
    (last.op = "get" /\ Expired(pre, now, last.id))
        => (~last.found /\ last.id \notin DOMAIN sessions)

\* C2: after one successful exchange driven by ask_poe, with no other handler
\* run meanwhile, the stored history is the history before the request
\* followed by exactly one user turn and one model turn.
C2_ExchangeAddsTwoTurns ==
    (last.op = "ask_poe" /\ last.status = 200 /\ last.updated /\ last.alone)
        => /\ last.session_id \in DOMAIN sessions
           /\ sessions[last.session_id].messages =
                 last.before \o <<Turn("user", last.prompt), Turn("bot", last.text)>>

\* C3: a session with no request in flight holds (user, model) pairs only, and
\* after a request whose external call failed the stored history is the one
\* from before the request.
C3_NoDanglingUserTurn ==
    /\ \A id \in DOMAIN sessions :
          InFlight(req, id) = {} => Paired(sessions[id].messages)
    /\ (last.op = "ask_poe" /\ last.status = 500 /\ last.alone
            /\ last.session_id \in DOMAIN sessions)
          => sessions[last.session_id].messages = last.before

\* C4: query appends the user turn to a working copy: while the request is
\* suspended on the external call, and after it returned or raised, the
\* history the store holds is the history that was handed to query.
C4_QueryLeavesStoredHistory ==
    /\ \A r \in Reqs :
          (req[r].pc = "awaiting" /\ req[r].alone /\ req[r].sid \in DOMAIN sessions)
             => sessions[req[r].sid].messages = req[r].before
    /\ (last.op = "ask_poe" /\ last.status = 500 /\ last.alone
            /\ last.session_id \in DOMAIN sessions)
          => sessions[last.session_id].messages = last.before

\* C5: update on an id that is absent, or whose session is expired, returns
\* false and appends nothing to any history.
C5_UpdateAbsentOrExpiredFails ==
    (last.op = "update" /\ (last.id \notin DOMAIN pre \/ Expired(pre, now, last.id)))
        => /\ last.ret = FALSE
           /\ \A k \in (DOMAIN sessions) \cap (DOMAIN pre) :
                 sessions[k].messages = pre[k].messages

\* C6: after an update(id, u, m) that returned true, list_messages(id) is the
\* history before the update followed by (user, u), (model, m); its length is
\* the previous length plus 2.
C6_UpdateAppendsPair ==
    (last.op = "update" /\ last.ret)
        => LET listed == GetMessages(sessions, now, last.id).ret IN
           /\ last.id \in DOMAIN pre
           /\ listed = pre[last.id].messages
                          \o <<Turn("user", last.u), Turn("bot", last.m)>>
           /\ Len(listed) = Len(pre[last.id].messages) + 2

C6_Witness ==
    /\ last.op = "update"
    /\ last.ret
    /\ Len(pre[last.id].messages) > 0

\* C7: get_or_create with no id, an id not in the store, or the id of an
\* expired session returns an id that was not in the store before and differs
\* from the argument; the new session has empty history, and an expired entry
\* named by the argument is removed.
C7_GetOrCreateFresh ==
    (last.op = "get_or_create"
        /\ (last.id = NoId \/ last.id \notin DOMAIN pre \/ Expired(pre, now, last.id)))
        => /\ last.ret \notin DOMAIN pre
           /\ last.ret # last.id
           /\ last.ret \in DOMAIN sessions
           /\ sessions[last.ret].messages = <<>>
           /\ last.id \notin DOMAIN sessions

C7_Witness ==
    /\ last.op = "get_or_create"
    /\ Expired(pre, now, last.id)
    /\ pre[last.id].messages # <<>>

\* C8: get_or_create with the id of a present, non-expired session returns
\* that id, leaves the set of stored ids and the session's history unchanged
\* and sets last_accessed to the current time; an ask_poe request carrying
\* such an id runs under it and its success response carries it.
C8_GetOrCreateLive ==
    /\ (last.op = "get_or_create" /\ Live(pre, now, last.id))
          => /\ last.ret = last.id
             /\ DOMAIN sessions = DOMAIN pre
             /\ sessions[last.id].messages = pre[last.id].messages
             /\ sessions[last.id].last_accessed = now
    /\ (last.op = "ask_start" /\ Live(pre, now, last.id)) => last.sid = last.id
    /\ (last.op = "ask_poe" /\ last.status = 200 /\ last.resumed)
          => last.session_id = last.arg

C8_Witness ==
    /\ last.op = "get_or_create"
    /\ Live(pre, now, last.id)
    /\ pre[last.id].last_accessed < now
    /\ pre[last.id].messages # <<>>

\* C9: delete(id) returns true exactly when id was in the store; afterwards id
\* is not in the store and every other session is unchanged; a second delete
\* of the same id returns false.
C9_Delete ==
    last.op = "delete"
        => /\ last.ret = (last.id \in DOMAIN pre)
           /\ DOMAIN sessions = (DOMAIN pre) \ {last.id}
           /\ \A k \in DOMAIN sessions : sessions[k] = pre[k]
           /\ last.again => last.ret = FALSE

C9_Witness ==
    /\ last.op = "delete"
    /\ last.again
    /\ DOMAIN sessions # {}

\* C10: sweep_expired removes exactly the sessions with
\* now > last_accessed + expiry_duration (one at now = last_accessed +
\* expiry_duration is kept), returns the number removed, leaves the remaining
\* sessions unchanged, and afterwards no stored session is expired.
C10_Sweep ==
    last.op = "sweep"
        => LET gone == {k \in DOMAIN pre : Expired(pre, now, k)} IN
           /\ DOMAIN sessions = (DOMAIN pre) \ gone
           /\ last.ret = Cardinality(gone)
           /\ \A k \in DOMAIN sessions : sessions[k] = pre[k]
           /\ \A k \in DOMAIN sessions : ~Expired(sessions, now, k)

C10_Witness ==
    /\ last.op = "sweep"
    /\ last.ret >= 1
    /\ \E k \in DOMAIN sessions : now = sessions[k].last_accessed + ExpiryDuration

\* C11: list_messages(id) returns the empty sequence when id is absent and
\* when the session is expired, and does not leave the expired session in
\* the store.
C11_ListAbsentOrExpiredIsEmpty ==
    (last.op = "list_messages"
        /\ (last.id \notin DOMAIN pre \/ Expired(pre, now, last.id)))
        => (last.ret = <<>> /\ last.id \notin DOMAIN sessions)

\* C12: create returns an identifier no stored session has; the new session
\* has empty history, get(id) right after returns it with empty history, and
\* every session stored before is unchanged.
C12_Create ==
    last.op = "create"
        => /\ last.ret \notin DOMAIN pre
           /\ DOMAIN sessions = (DOMAIN pre) \cup {last.ret}
           /\ sessions[last.ret].messages = <<>>
           /\ \A k \in DOMAIN pre : sessions[k] = pre[k]
           /\ LET g == GetSession(sessions, now, last.ret) IN
              g.found /\ g.ss[last.ret].messages = <<>>

C12_Witness ==
    /\ last.op = "create"
    /\ \E k \in DOMAIN pre : pre[k].messages # <<>>

\* ------------------------------------------------- claims about the extraction
\* the text has a delimited segment: an opening marker with a closing one after it
HasSegment(s) ==
    Find(s, OpenTag) # -1 /\ FindFrom(s, CloseTag, Find(s, OpenTag) + Len(OpenTag)) # -1

\* contents of the first delimited segment
FirstSegment(s) ==
    Slice(s, Find(s, OpenTag) + Len(OpenTag),
          FindFrom(s, CloseTag, Find(s, OpenTag) + Len(OpenTag)))

\* the text without its first delimited segment, the rest in order
WithoutFirstSegment(s) ==
    Slice(s, 0, Find(s, OpenTag))
        \o Slice(s, FindFrom(s, CloseTag, Find(s, OpenTag) + Len(OpenTag)) + Len(CloseTag),
                 Len(s))

\* C14: the extraction is idempotent for every text: applied to the response
\* text of one extraction it returns that same text.
C14_Idempotent ==
    /\ ext.pc = "processed" => ext.twice = ext.once
    /\ (ext.pc = "extracted" /\ ext.once.raised = "")
           => (ext.twice.raised = "" /\ ext.twice.response = ext.once.response)

\* C15: for a text with a delimited segment, under the default delimiter and
\* include_in_response = false, the extraction returns the trimmed contents of
\* the first segment as thinking text and the text without that segment, the
\* rest in order, as response.
C15_ExtractsFirstSegment ==
    /\ (ext.pc = "processed" /\ HasSegment(ext.text))
           => ext.once = WithoutFirstSegment(ext.text)
    /\ (ext.pc = "extracted" /\ ext.thinking = DefaultThinking /\ HasSegment(ext.text))
           => ext.once = Extracted(Strip(FirstSegment(ext.text)),
                                   WithoutFirstSegment(ext.text))

\* C16: for a text with no delimited segment the extraction returns the text
\* unchanged and an empty thinking text.
C16_NoSegmentUnchanged ==
    /\ (ext.pc = "processed" /\ ~HasSegment(ext.text)) => ext.once = ext.text
    /\ (ext.pc = "extracted" /\ ext.thinking = DefaultThinking /\ ~HasSegment(ext.text))
           => ext.once = Extracted(<<>>, ext.text)

\* C17: with a template that lacks the placeholder the extraction never fails
\* and gives what it gives under the default template.
C17_MalformedTemplateFallsBack ==
    (/\ ext.pc = "extracted"
     /\ ext.thinking.given
     /\ ext.thinking.enabled
     /\ Find(ext.thinking.template, Placeholder) = -1)
        => /\ ext.once.raised = ""
           /\ ext.once = ExtractThinkingFromResponse(
                             ext.text,
                             [ext.thinking EXCEPT !.template = DefaultTemplate])

\* ------------------------------------------------- claims about query_model
\* the bot is of the vendor family and a thinking configuration with
\* enabled != false was supplied
ThinkingSupplied(q) == q.is_claude /\ q.thinking.given /\ q.thinking.enabled

\* C13: when thinking is absent or disabled, or the bot is not of the vendor
\* family, the text query returns is the concatenation of the chunks, unchanged.
C13_NoStrippingWithoutThinking ==
    (qry.pc = "returned" /\ ~ThinkingSupplied(qry)) => qry.result.text = qry.raw

\* C18: with thinking handling active, the text returned on successful
\* completion contains no complete thinking segment, however the output is
\* split into chunks.
C18_NoSegmentReturned ==
    (/\ qry.pc = "returned"
     /\ ~qry.failed
     /\ qry.claude_compatible
     /\ ThinkingSupplied(qry))
        => ~HasSegment(qry.result.text)

\* the classifier ran on the error and took it for a thinking-protocol error
ClassifiedThinkingProtocol(q) ==
    /\ q.failed
    /\ q.is_claude
    /\ q.claude_compatible
    /\ HandleClaudeError(q.error_msg).error = "claude_thinking_protocol_error"

\* C19: when the external call raises, the error is classified as a
\* thinking-protocol error and some text was accumulated, query does not raise:
\* it returns the accumulated text, with error and error_message set.
C19_PartialTextReturned ==
    (qry.pc \in {"returned", "raised"}
        /\ ClassifiedThinkingProtocol(qry)
        /\ qry.full_response # <<>>)
        => /\ qry.pc = "returned"
           /\ qry.result.text = qry.full_response
           /\ DOMAIN qry.result = {"text", "bot", "error", "error_message"}
           /\ qry.result.error = "claude_thinking_protocol_error"
           /\ qry.result.error_message = ThinkingProtocolMessage

C19_Witness ==
    /\ qry.pc = "returned"
    /\ ClassifiedThinkingProtocol(qry)
    /\ qry.full_response # <<>>
    /\ qry.raw # qry.full_response

\* C20 as the specification states it: when the external call raises for a
\* vendor-family bot before any text was accumulated, query raises PoeApiError
\* and its message carries the message of the error classifier.
C20_RaisesClassifiedMessage ==
    (qry.pc \in {"returned", "raised"}
        /\ qry.failed
        /\ qry.is_claude
        /\ qry.full_response = <<>>)
        => /\ qry.pc = "raised"
           /\ qry.exc.type = "PoeApiError"
           /\ In(HandleClaudeError(qry.error_msg).message, qry.exc.message)

\* C20 amended: with the compatibility toggle on, when the external call
\* raises for a vendor-family bot before any text was accumulated, query raises
\* PoeApiError and its message is "Error querying Poe model: " ("Error
\* querying Poe model with file: " for a query with an attachment) followed by
\* the message of the error classifier.
C20_RaisesClassifiedMessageWhenCompatible ==
    (qry.pc \in {"returned", "raised"}
        /\ qry.failed
        /\ qry.is_claude
        /\ qry.claude_compatible
        /\ qry.full_response = <<>>)
        => /\ qry.pc = "raised"
           /\ qry.exc.type = "PoeApiError"
           /\ qry.exc.message =
                  (IF qry.file.given THEN QueryFileErrorPrefix ELSE QueryErrorPrefix)
                      \o HandleClaudeError(qry.error_msg).message

C20_Witness ==
    /\ qry.pc = "raised"
    /\ qry.is_claude
    /\ qry.claude_compatible
    /\ qry.full_response = <<>>
    /\ qry.raw # <<>>

\* C21: when the external call raises for a bot that is not of the vendor
\* family, the error leaving query is the error the external call raised: same
\* type, same message.
C21_ReraisedUnchanged ==
    (qry.pc = "raised" /\ qry.failed /\ ~qry.is_claude)
        => qry.exc = [type |-> ExternalErrorType, message |-> qry.error_msg]

\* C22: an invocation of query that reaches the external model makes exactly
\* one external call, whatever its outcome (success, partial result, raised
\* error); an invocation that does not reach it makes none.
C22_OneExternalCall ==
    qry.pc # "off"
        => qry.calls = (IF qry.pc = "raised" /\ ~qry.failed THEN 0 ELSE 1)

C22_Witness ==
    /\ qry.pc = "raised"
    /\ qry.failed
    /\ qry.raw # <<>>
    /\ qry.full_response = <<>>

\* C23: query with an attachment path that does not exist raises
\* FileHandlingError, not wrapped into another type, makes no external call
\* and leaves the caller's history as it was.
C23_MissingFile ==
    (qry.pc # "off" /\ qry.file.given /\ ~qry.file.exists)
        => /\ qry.pc = "raised"
           /\ qry.exc = [type |-> "FileHandlingError",
                         message |-> FileNotFoundPrefix \o qry.file.path]
           /\ qry.calls = 0
           /\ qry.messages = qry.history

C23_Witness ==
    /\ qry.pc = "raised"
    /\ qry.file.given
    /\ ~qry.file.exists
    /\ qry.history # <<>>

\* ------------------------------------- claims about the fallback handler
\* the rule of the specification: case-insensitively, some registry fragment
\* contains the bot identifier or the bot identifier contains some fragment
VendorFamily(registry, bot) ==
    \E k \in DOMAIN registry :
        \/ In(Lower(registry[k]), Lower(bot))
        \/ In(Lower(bot), Lower(registry[k]))

\* C25: the fallback handler calls the fallback callable at most once per
\* handled error, and exactly once when the error text matches a keyword, a
\* callable is supplied and the bot is of the vendor family; that call carries
\* a thinking configuration with enabled = false, and fallback_used is true in
\* the result if and only if the callable was called.
C25_FallbackOnce ==
    fbk.pc # "off"
        => /\ Len(fbk.calls) <= 1
           /\ Len(fbk.calls) = 1
                 <=> (/\ IsThinkingError(Lower(fbk.args.error_msg))
                      /\ fbk.args.fallback_handler
                      /\ VendorFamily(CLAUDE_MODELS, fbk.args.model_name))
           /\ \A i \in DOMAIN fbk.calls : fbk.calls[i].thinking.enabled = FALSE
           /\ fbk.pc = "returned" => (fbk.result.fallback_used <=> Len(fbk.calls) = 1)

\* C26: when the primary call failed and the fallback call fails too,
\* handle_error does not raise: it returns error = true, fallback_used = true,
\* fallback_failed = true, an empty text and an error_message reporting both
\* failures.
C26_BothFailed ==
    (fbk.pc \in {"returned", "raised"} /\ fbk.fallback_error # <<>>)
        => /\ fbk.pc = "returned"
           /\ DOMAIN fbk.result
                 = {"text", "error", "error_message", "fallback_used", "fallback_failed"}
           /\ fbk.result.error
           /\ fbk.result.fallback_used
           /\ fbk.result.fallback_failed
           /\ fbk.result.text = <<>>
           /\ In(Lower(fbk.args.error_msg), fbk.result.error_message)
           /\ In(fbk.fallback_error, fbk.result.error_message)

C26_Witness ==
    /\ fbk.pc = "returned"
    /\ fbk.fallback_error # <<>>
    /\ fbk.fallback_error # fbk.args.error_msg
    /\ Len(fbk.calls) = 1

\* C27: the classification is true exactly when, case-insensitively, some
\* registry fragment contains the bot identifier or the bot identifier contains
\* some fragment; the classifier of the orchestrator and the classifier of the
\* fallback handler both follow this rule and give the same answer.
C27_ClassifiersAgree ==
    fbk.pc # "off"
        => /\ IsClaudeModel(fbk.args.model_name)
                 = VendorFamily(claude_models, fbk.args.model_name)
           /\ IsClaudeModelV2(fbk.args.model_name)
                 = VendorFamily(CLAUDE_MODELS, fbk.args.model_name)
           /\ IsClaudeModel(fbk.args.model_name) = IsClaudeModelV2(fbk.args.model_name)


\* C24: an attachment request whose file exceeds the configured maximum size
\* is answered with the error kind file_handling_error, with no session
\* created and no external call made.
C24_OversizeIsFileHandlingError ==
    (att.pc = "idle" /\ att.op = "ask_with_attachment"
        /\ att.upload.size > MaxFileSizeMb * Mebibyte)
        => /\ att.ret.status = 500
           /\ att.ret.content.error = "file_handling_error"

\* the error kind the transport gives to an exception type
ErrorKind(type) ==
    CASE type = "AuthenticationError" -> "authentication_error"
      [] type = "PoeApiError" -> "poe_api_error"
      [] type = "FileHandlingError" -> "file_handling_error"
      [] OTHER -> "unexpected_error"

C29_CaughtIsLogged ==
    (att.pc = "idle" /\ att.op # "init")
        => \A i \in DOMAIN att.caught :
              \E j \in DOMAIN att.log : In(att.caught[i].message, att.log[j].text)


\* the histories of the store and of the last response hold the two turns of
\* an update side by side: every bot turn is the reply of a request and stands
\* right after the user turn carrying that request's prompt
PairsAdjacent(h) ==
    \A i \in DOMAIN h :
        h[i].role = "bot"
            => /\ i > 1
               /\ \E r \in Reqs : h[i].content = ConcReply(r)
                                    /\ h[i - 1] = Turn("user", ConcPrompt(r))

\* C30: whatever the interleaving of requests on a session id, the user turn
\* and the model turn written by one update are adjacent and in (user, model)
\* order, both when they are written and in every later history.
C30_PairWrittenTogether ==
    /\ \A id \in DOMAIN sessions : PairsAdjacent(sessions[id].messages)
    /\ (last.op = "ask_poe" /\ last.status = 200 /\ last.updated)
          => sessions[last.session_id].messages
                = pre[last.session_id].messages
                    \o <<Turn("user", last.prompt), Turn("bot", last.text)>>

\* two requests were in flight on one session id and both have recorded
\* their exchange, the second while turns of the first were already stored
C30_Witness ==
    /\ last.op = "ask_poe" /\ last.status = 200 /\ last.updated
    /\ \E i, j \in DOMAIN sessions[last.session_id].messages :
          LET h == sessions[last.session_id].messages IN
          /\ i < j
          /\ h[i].role = "bot" /\ h[j].role = "bot"
          /\ h[i].content # h[j].content
          /\ \E k \in 1..(i - 1) : h[k] = Turn("user", h[j - 1].content)


\* C31: when the requests on a session are handled one after another and each
\* succeeds, the context sent to the external model is the earlier
\* (user, bot) pairs followed by the current prompt as one user turn.
C31_ContextIsPairsThenPrompt ==
    (last.op = "ask_start" /\ last.serial)
        => LET n == Len(last.sent) IN
           /\ Paired(SubSeq(last.sent, 1, n - 1))
           /\ last.sent[n] = Turn("user", ConcPrompt(last.req))


IsPrefix(a, b) == Len(a) <= Len(b) /\ SubSeq(b, 1, Len(a)) = a

\* C32: while a session exists its history only grows at the end: the history
\* before an operation is a prefix of the history after it.
C32_HistoryOnlyGrows ==
    \A id \in DOMAIN pre \cap DOMAIN sessions :
        IsPrefix(pre[id].messages, sessions[id].messages)

C32_Witness ==
    /\ last.op = "ask_poe" /\ last.status = 200 /\ last.updated
    /\ pre[last.session_id].messages # <<>>
    /\ Len(sessions[last.session_id].messages)
          = Len(pre[last.session_id].messages) + 2


\* C33: a get, list_messages, update or get_or_create that hits a present,
\* non-expired session sets its last_accessed to the current time; no
\* operation lowers last_accessed or changes created_at of a session it keeps.
C33_Timestamps ==
    /\ (last.op \in {"get", "list_messages", "update", "get_or_create"}
            /\ Live(pre, now, last.id))
          => /\ last.id \in DOMAIN sessions
             /\ sessions[last.id].last_accessed = now
    /\ \A id \in DOMAIN pre \cap DOMAIN sessions :
          /\ sessions[id].last_accessed >= pre[id].last_accessed
          /\ sessions[id].created_at = pre[id].created_at

C33_Witness ==
    /\ last.op \in {"get", "list_messages", "update"}
    /\ Live(pre, now, last.id)
    /\ pre[last.id].last_accessed < now
    /\ sessions[last.id].last_accessed = now
    /\ sessions[last.id].created_at < now

\* C34: get, update, list_messages and delete on id A, and get_or_create on a
\* live id A, leave every other session as it was: none is added, removed or
\* changed.
C34_OtherSessionsUntouched ==
    (\/ last.op \in {"get", "update", "list_messages", "delete"}
     \/ (last.op = "get_or_create" /\ Live(pre, now, last.id)))
        => \A B \in (DOMAIN pre \cup DOMAIN sessions) \ {last.id} :
              /\ B \in DOMAIN pre
              /\ B \in DOMAIN sessions
              /\ sessions[B] = pre[B]

\* the operation ran on one session while another one, expired, was stored
C34_Witness ==
    /\ last.op \in {"get", "update", "list_messages", "delete"}
    /\ last.id \in DOMAIN pre
    /\ \E B \in DOMAIN sessions \ {last.id} : Expired(sessions, now, B)


\* C35: whenever ask_poe answers with a success response {text, session_id},
\* the session session_id is in the store and its history ends with the bot
\* turn carrying that text, whatever ran during the external call.
C35_SuccessMeansRecorded ==
    (last.op = "ask_poe" /\ last.status = 200)
        => /\ last.session_id \in DOMAIN sessions
           /\ LET h == sessions[last.session_id].messages IN
              /\ h # <<>>
              /\ h[Len(h)] = Turn("bot", last.text)


\* C36: concurrent attachment requests do not interfere through /tmp: a
\* request that reached the external call sent its own upload, a request whose
\* external call returned answers with a success response, and a request
\* answered with an error envelope has recorded no exchange.
C36_UploadsDoNotInterfere ==
    \A r \in Reqs :
        up.reqs[r].pc = "done"
            => /\ up.reqs[r].outcome \in {"returned", "raised"}
                    => up.reqs[r].sent
                          = up.reqs[r].prompt \o FileContentLabel \o UploadText(r)
               /\ up.reqs[r].outcome = "returned" => up.reqs[r].ret.status = 200
               /\ up.reqs[r].ret.status = 500 => ~up.reqs[r].recorded


\* C37: when a query ends with a successful return, the text returned is the
\* concatenation of the chunks delivered to the stream handler; the chunks
\* delivered are the chunk_text values full_response accumulates (lines
\* 130-134).
C37_ReturnedIsStreamed ==
    (qry.pc = "returned" /\ ~qry.failed)
        => qry.result.text = qry.full_response


\* C38: the output of process_claude_response is its input with one contiguous
\* span deleted (or the input itself), so it is never longer than the input.
C38_DeletesOneSpan ==
    ext.pc = "processed"
        => /\ Len(ext.once) <= Len(ext.text)
           /\ \E i \in 0..Len(ext.text) : \E j \in i..Len(ext.text) :
                 ext.once = Slice(ext.text, 0, i) \o Slice(ext.text, j, Len(ext.text))


\* C39: when the external call failed mid-stream and query_model returned the
\* partial text annotated with an error, the handler's response signals the
\* error and the partial text is not recorded as a bot turn.
C39_PartialIsNotSuccess ==
    (last.op = "respond" /\ qry.failed /\ qry.full_response # <<>>)
        => /\ last.response.status # 200
           /\ last.recorded = <<>>


\* C40: with a finite external stream every request suspended on the external
\* call eventually completes with one outcome, a success response or an error
\* envelope, and while it is suspended its completion stays possible whatever
\* other requests are in flight.
C40_EveryRequestCompletes ==
    /\ \A r \in Reqs :
          (req[r].pc = "awaiting")
             ~> (/\ req[r].pc = "idle"
                 /\ last.op = "ask_poe" /\ last.req = r
                 /\ last.status \in {200, 500})
    /\ [](\A r \in Reqs :
             req[r].pc = "awaiting"
                => ENABLED (ConcReturn(r) \/ ConcRaise(r)))

\* a request completed while another one was still suspended
C40_Witness ==
    /\ last.op = "ask_poe" /\ last.status = 200
    /\ req[last.req].pc = "idle"
    /\ \E r \in Reqs : req[r].pc = "awaiting" /\ req[r].sid = last.session_id

====
